---- MODULE Spec2Model ----
(***************************************************************************)
(* Circuit evaluation engine of the logic-gate sandbox: evaluateCircuit,   *)
(* detectCycleConnections and wouldCreateCycle, with the circuit state     *)
(* they are applied to, the reducer that changes that state and the        *)
(* Canvas handlers that dispatch to it.                                    *)
(*                                                                         *)
(* Conventions.  A JavaScript array is a sequence; JavaScript index i is   *)
(* position i+1.  Node, connection and module ids are positive integers    *)
(* (the code uses UUID strings and only compares them for equality).  An   *)
(* optional boolean field (inputValue) is <<>> when undefined and <<b>>    *)
(* when set; moduleId 0 is undefined.                                      *)
(***************************************************************************)
EXTENDS Integers, Sequences, FiniteSets, TLC

VARIABLES
    nodes,               \* CircuitNode[]  : the scope's node list
    connections,         \* Connection[]   : the scope's connection list
    modules,             \* ModuleDefinition[] : the module library
    op,                  \* the engine call last applied / in progress
    cycleConnectionIds,  \* result of detectCycleConnections
    wccResult,           \* result of wouldCreateCycle
    nodeOutputs,         \* result of evaluateCircuit
    pc,                  \* position of a step-by-step engine run
    loop,                \* loop state of a step-by-step detector / BFS run
    stack,               \* call stack of a step-by-step evaluateCircuit run
    connectingFrom,      \* Canvas: the pin a wire is being drawn from, or null
    uuid                 \* the ids crypto.randomUUID() gives next

\* The Canvas' own state
canvas == <<connectingFrom, uuid>>

vars == <<nodes, connections, modules, op, cycleConnectionIds, wccResult,
          nodeOutputs, pc, loop, stack, connectingFrom, uuid>>

(***************************************************************************)
(* Bounds of the model.                                                    *)
(***************************************************************************)
MaxNodes == 3
MaxConns == 3

(***************************************************************************)
(* Generic helpers.                                                        *)
(***************************************************************************)

\* connectingFrom === null
NoDrawing == <<>>

\* No id has been given out yet: one counter for each kind of id (ids of
\* different kinds are never compared)
FirstIds == [node |-> 1, connection |-> 1, module |-> 1]

\* CircuitContext.tsx 133: useState(null); no wire is being drawn
CanvasAtRest == connectingFrom = NoDrawing /\ uuid = FirstIds

Range(s) == {s[i] : i \in DOMAIN s}

NodeIds(ns) == {ns[i].id : i \in DOMAIN ns}

\* Set.prototype.add on a Set kept in insertion order
SetAdd(s, x) == IF x \in Range(s) THEN s ELSE Append(s, x)

\* nodes.find(n => n.id === id): position of the first node with that id, 0 if none
FindNode(ns, id) ==
    IF \E i \in DOMAIN ns : ns[i].id = id
    THEN CHOOSE i \in DOMAIN ns : ns[i].id = id /\ \A j \in 1..(i-1) : ns[j].id # id
    ELSE 0

(***************************************************************************)
(* detectCycleConnections  (SideMenu.tsx 308-345)                          *)
(***************************************************************************)

\* Faulty variant of DetectAddConn: only the destination is looked up, so a
\* connection from a node that is not in the list still counts as an in-edge
DetectAddConnDestinationOnly(d, conn) ==
    IF conn.toNodeId \in DOMAIN d.inDegree
    THEN [adj |-> [n \in DOMAIN d.adj |->
                      IF n = conn.fromNodeId THEN SetAdd(d.adj[n], conn.toNodeId) ELSE d.adj[n]],
          inDegree |-> [d.inDegree EXCEPT ![conn.toNodeId] = @ + 1]]
    ELSE d

\* lines 319-324: one connection's contribution to adj and inDegree
DetectAddConn(d, conn) ==
    IF conn.fromNodeId \in DOMAIN d.adj /\ conn.toNodeId \in DOMAIN d.inDegree
    THEN [d EXCEPT !.adj[conn.fromNodeId] = SetAdd(@, conn.toNodeId),
                   !.inDegree[conn.toNodeId] = @ + 1]
    ELSE d

RECURSIVE DetectBuild(_, _, _)
DetectBuild(d, conns, i) ==
    IF i > Len(conns) THEN d
    ELSE DetectBuild(DetectAddConn(d, conns[i]), conns, i + 1)

\* lines 312-331: adjacency, in-degrees, the initial queue, the empty processed set
DetectStart(ns, conns) ==
    LET ids == NodeIds(ns)
        d0  == [adj |-> [n \in ids |-> <<>>], inDegree |-> [n \in ids |-> 0]]
        d   == DetectBuild(d0, conns, 1)
        zero(i) == d.inDegree[ns[i].id] = 0
        idx == SelectSeq([i \in DOMAIN ns |-> i], zero)
    IN [adj |-> d.adj, inDegree |-> d.inDegree,
        queue |-> [k \in DOMAIN idx |-> ns[idx[k]].id],
        processed |-> {}]

\* Faulty variant of DetectKahnStep: the head of the queue is read but not
\* taken off
DetectKahnStepPeek(k) == [k EXCEPT !.processed = @ \cup {Head(k.queue)}]

\* lines 333-338: one iteration of the while loop (the successors in adj[id]
\* are distinct, so the inner for loop decrements each exactly once)
DetectKahnStep(k) ==
    LET id   == Head(k.queue)
        succ == k.adj[id]
        deg  == [n \in DOMAIN k.inDegree |->
                    IF n \in Range(succ) THEN k.inDegree[n] - 1 ELSE k.inDegree[n]]
        isZero(n) == deg[n] = 0
    IN [k EXCEPT !.queue = Tail(k.queue) \o SelectSeq(succ, isZero),
                 !.inDegree = deg,
                 !.processed = @ \cup {id}]

RECURSIVE DetectKahnLoop(_)
DetectKahnLoop(k) == IF k.queue = <<>> THEN k ELSE DetectKahnLoop(DetectKahnStep(k))

\* Faulty variant of CycleNodes: the processed nodes are not taken out
CycleNodesAll(ns, processed) == NodeIds(ns)

\* line 341
CycleNodes(ns, processed) == {n \in NodeIds(ns) : n \notin processed}

\* Faulty variant of DetectFinish: one endpoint among the cycle nodes is enough
DetectFinishEither(ns, conns, processed) ==
    LET cyc == CycleNodes(ns, processed)
        onCycle(i) == conns[i].fromNodeId \in cyc \/ conns[i].toNodeId \in cyc
        idx == SelectSeq([i \in DOMAIN conns |-> i], onCycle)
    IN [k \in DOMAIN idx |-> conns[idx[k]].id]

\* lines 342-344
DetectFinish(ns, conns, processed) ==
    LET cyc == CycleNodes(ns, processed)
        onCycle(i) == conns[i].fromNodeId \in cyc /\ conns[i].toNodeId \in cyc
        idx == SelectSeq([i \in DOMAIN conns |-> i], onCycle)
    IN [k \in DOMAIN idx |-> conns[idx[k]].id]

\* lines 308-345
detectCycleConnections(ns, conns) ==
    DetectFinish(ns, conns, DetectKahnLoop(DetectStart(ns, conns)).processed)

(***************************************************************************)
(* wouldCreateCycle  (SideMenu.tsx 347-368, identical to part_005 107-131)  *)
(***************************************************************************)

\* Faulty variant of WccAdj: the adjacency is keyed by destination (edges reversed)
WccAdjReversed(conns, n) ==
    LET into(i) == conns[i].toNodeId = n
        idx == SelectSeq([i \in DOMAIN conns |-> i], into)
    IN [k \in DOMAIN idx |-> conns[idx[k]].fromNodeId]

\* lines 353-357: adj[n], the destinations of n's connections in list order
WccAdj(conns, n) ==
    LET from(i) == conns[i].fromNodeId = n
        idx == SelectSeq([i \in DOMAIN conns |-> i], from)
    IN [k \in DOMAIN idx |-> conns[idx[k]].toNodeId]

\* lines 358-359
WccStart(toNodeId) == [queue |-> <<toNodeId>>, visited |-> {}, found |-> FALSE]

\* lines 361-365: one iteration of the while loop
WccStep(conns, fromNodeId, w) ==
    LET current == Head(w.queue)
    IN IF current = fromNodeId THEN [w EXCEPT !.found = TRUE]
       ELSE IF current \in w.visited THEN [w EXCEPT !.queue = Tail(w.queue)]
       ELSE [w EXCEPT !.queue = Tail(w.queue) \o WccAdj(conns, current),
                      !.visited = @ \cup {current}]

RECURSIVE WccLoop(_, _, _)
WccLoop(conns, fromNodeId, w) ==
    IF w.found \/ w.queue = <<>> THEN w.found
    ELSE WccLoop(conns, fromNodeId, WccStep(conns, fromNodeId, w))

\* line 352
WccSelfLoop(fromNodeId, toNodeId) == fromNodeId = toNodeId

\* Faulty variant of wouldCreateCycle: no early return for a self-loop, and the search
\* is seeded with the destination's successors instead of the destination
wouldCreateCycleFromSuccessors(conns, fromNodeId, toNodeId) ==
    WccLoop(conns, fromNodeId,
            [queue |-> WccAdj(conns, toNodeId), visited |-> {toNodeId}, found |-> FALSE])

\* lines 347-368
wouldCreateCycle(conns, fromNodeId, toNodeId) ==
    IF WccSelfLoop(fromNodeId, toNodeId) THEN TRUE
    ELSE WccLoop(conns, fromNodeId, WccStart(toNodeId))

(***************************************************************************)
(* evaluateCircuit  (SideMenu.tsx 192-306)                                 *)
(***************************************************************************)

\* (arr[i] ?? false) for a JavaScript index i
At(arr, i) == IF i + 1 \in DOMAIN arr THEN arr[i + 1] ELSE FALSE

\* (outputs[id] || [])
OutputsOf(outputs, id) == IF id \in DOMAIN outputs THEN outputs[id] ELSE <<>>

\* outputs[id] = v
SetOutput(outputs, id, v) ==
    [x \in DOMAIN outputs \cup {id} |-> IF x = id THEN v ELSE outputs[x]]

\* lines 205-210: one connection's contribution to outEdges and inEdges
EvalAddConn(e, conn) ==
    IF conn.fromNodeId \in DOMAIN e.outEdges /\ conn.toNodeId \in DOMAIN e.inEdges
    THEN [e EXCEPT !.outEdges[conn.fromNodeId] = SetAdd(@, conn.toNodeId),
                   !.inEdges[conn.toNodeId] = @ \cup {conn.fromNodeId}]
    ELSE e

RECURSIVE EvalBuild(_, _, _)
EvalBuild(e, conns, i) ==
    IF i > Len(conns) THEN e
    ELSE EvalBuild(EvalAddConn(e, conns[i]), conns, i + 1)

\* Faulty variant of EvalStart: the in-degrees are left at zero, so every node is
\* queued at once and the order is the list order
EvalStartNoInDegree(ns, conns) ==
    LET ids == NodeIds(ns)
        e0  == [outEdges |-> [n \in ids |-> <<>>], inEdges |-> [n \in ids |-> {}]]
        e   == EvalBuild(e0, conns, 1)
    IN [outEdges |-> e.outEdges, inDegree |-> [n \in ids |-> 0],
        queue |-> [k \in DOMAIN ns |-> ns[k].id],
        sorted |-> <<>>]

\* lines 199-220: adjacency, in-degrees, the initial queue, the empty order
EvalStart(ns, conns) ==
    LET ids == NodeIds(ns)
        e0  == [outEdges |-> [n \in ids |-> <<>>], inEdges |-> [n \in ids |-> {}]]
        e   == EvalBuild(e0, conns, 1)
        deg == [n \in ids |-> Cardinality(e.inEdges[n])]
        zero(i) == deg[ns[i].id] = 0
        idx == SelectSeq([i \in DOMAIN ns |-> i], zero)
    IN [outEdges |-> e.outEdges, inDegree |-> deg,
        queue |-> [k \in DOMAIN idx |-> ns[idx[k]].id],
        sorted |-> <<>>]

\* lines 222-227: one iteration of the while loop
EvalKahnStep(k) ==
    LET id   == Head(k.queue)
        succ == k.outEdges[id]
        deg  == [n \in DOMAIN k.inDegree |->
                    IF n \in Range(succ) THEN k.inDegree[n] - 1 ELSE k.inDegree[n]]
        isZero(n) == deg[n] = 0
    IN [k EXCEPT !.queue = Tail(k.queue) \o SelectSeq(succ, isZero),
                 !.inDegree = deg,
                 !.sorted = Append(@, id)]

RECURSIVE EvalKahnLoop(_)
EvalKahnLoop(k) == IF k.queue = <<>> THEN k ELSE EvalKahnLoop(EvalKahnStep(k))

\* line 236: connections.find(c => c.toNodeId === nodeId && c.toPinIndex === i)
FindConn(conns, nodeId, i) ==
    LET hit(j) == conns[j].toNodeId = nodeId /\ conns[j].toPinIndex = i
    IN IF \E j \in DOMAIN conns : hit(j)
       THEN CHOOSE j \in DOMAIN conns : hit(j) /\ \A h \in 1..(j-1) : ~hit(h)
       ELSE 0

\* The gathering of lines 237-241 with a floating pin read as true: the variant
\* the default of an unconnected pin is checked against
PinValueFloatingTrue(node, conns, outputs, i) ==
    LET j == FindConn(conns, node.id, i)
    IN IF j # 0
       THEN At(OutputsOf(outputs, conns[j].fromNodeId), conns[j].fromPinIndex)
       ELSE TRUE

\* lines 237-241: the value gathered for input pin i
PinValue(node, conns, outputs, i) ==
    LET j == FindConn(conns, node.id, i)
    IN IF j # 0
       THEN At(OutputsOf(outputs, conns[j].fromNodeId), conns[j].fromPinIndex)
       ELSE FALSE

\* lines 234-242
InputValues(node, conns, outputs) ==
    [p \in 1..node.inputCount |-> PinValue(node, conns, outputs, p - 1)]

\* line 249
AndOutput(inputValues) ==
    <<Len(inputValues) >= 2 /\ At(inputValues, 0) /\ At(inputValues, 1)>>

\* Faulty variant of OrOutput: the operator of the AND case
OrOutputAsAnd(inputValues) ==
    <<Len(inputValues) >= 2 /\ (At(inputValues, 0) /\ At(inputValues, 1))>>

\* line 252
OrOutput(inputValues) ==
    <<Len(inputValues) >= 2 /\ (At(inputValues, 0) \/ At(inputValues, 1))>>

\* lines 262-274
PinBarOutput(node, inputValues) ==
    LET mode == IF node.pinBarMode = "undefined" THEN "input" ELSE node.pinBarMode
    IN IF mode = "input"
       THEN [p \in 1..node.outputCount |-> At(node.pinBarValues, p - 1)]
       ELSE SubSeq(inputValues, 1, IF node.inputCount < Len(inputValues)
                                    THEN node.inputCount ELSE Len(inputValues))

\* lines 244-276, 295-301: the switch, for every case that makes no recursive call
SimpleOutput(node, inputValues) ==
    CASE node.type = "INPUT"  -> <<IF node.inputValue = <<>> THEN FALSE ELSE node.inputValue[1]>>
      [] node.type = "AND"    -> AndOutput(inputValues)
      [] node.type = "OR"     -> OrOutput(inputValues)
      [] node.type = "NOT"    -> <<~At(inputValues, 0)>>
      [] node.type \in {"OUTPUT", "LED"} -> <<At(inputValues, 0)>>
      [] node.type = "PINBAR" -> PinBarOutput(node, inputValues)
      [] node.type = "MODULE" -> [p \in 1..node.outputCount |-> FALSE]
      [] OTHER                -> <<FALSE>>

\* line 278: modules.find(m => m.id === node.moduleId), 0 if none
FindModule(ms, moduleId) ==
    IF \E i \in DOMAIN ms : ms[i].id = moduleId
    THEN CHOOSE i \in DOMAIN ms : ms[i].id = moduleId /\ \A j \in 1..(i-1) : ms[j].id # moduleId
    ELSE 0

\* Faulty variant of IndexOf: the position counted from the end of the array
IndexOfFromEnd(arr, x) ==
    IF x \in Range(arr)
    THEN Len(arr) - (CHOOSE i \in DOMAIN arr : arr[i] = x /\ \A j \in 1..(i-1) : arr[j] # x)
    ELSE -1

\* line 282: moduleDef.inputNodeIds.indexOf(n.id), as a JavaScript index
IndexOf(arr, x) ==
    IF x \in Range(arr)
    THEN (CHOOSE i \in DOMAIN arr : arr[i] = x /\ \A j \in 1..(i-1) : arr[j] # x) - 1
    ELSE -1

\* line 284: { ...n, inputValue: b }
WithInputValue(node, b) == [node EXCEPT !.inputValue = <<b>>]

\* Faulty variant of InternalNodes: the definition's nodes are taken as stored
InternalNodesAsStored(moduleDef, inputValues) == moduleDef.nodes

\* lines 280-288
InternalNodes(moduleDef, inputValues) ==
    [p \in DOMAIN moduleDef.nodes |->
        LET n   == moduleDef.nodes[p]
            idx == IndexOf(moduleDef.inputNodeIds, n.id)
        IN IF n.type = "INPUT" /\ idx >= 0 /\ idx < Len(inputValues)
           THEN WithInputValue(n, inputValues[idx + 1])
           ELSE n]

\* lines 290-293
ModuleResult(moduleDef, internalOutputs) ==
    [p \in DOMAIN moduleDef.outputNodeIds |->
        At(OutputsOf(internalOutputs, moduleDef.outputNodeIds[p]), 0)]

\* The MODULE case with the internal mapping copied into the caller's
\* (Object.assign(outputs, internalOutputs) before the instance's entry is
\* set): the variant the separation of the two mappings is checked against
AfterModuleCallMerged(outputs, id, moduleDef, internalOutputs) ==
    LET keys == DOMAIN outputs \cup DOMAIN internalOutputs
        merged == [k \in keys |-> IF k \in DOMAIN internalOutputs
                                  THEN internalOutputs[k] ELSE outputs[k]]
    IN SetOutput(merged, id, ModuleResult(moduleDef, internalOutputs))

\* lines 289-294: the caller's mapping after the recursive call has returned;
\* internalOutputs is read for the designated outputs and dropped
AfterModuleCall(outputs, id, moduleDef, internalOutputs) ==
    SetOutput(outputs, id, ModuleResult(moduleDef, internalOutputs))

\* line 277-279: does evaluating this node call evaluateCircuit again?
IsModuleCall(node, ms) == node.type = "MODULE" /\ FindModule(ms, node.moduleId) # 0

RECURSIVE evaluateCircuit(_, _, _)
RECURSIVE EvalSorted(_, _, _, _, _, _)

\* lines 230-303: the for loop over sorted, from position i on
EvalSorted(ns, conns, ms, sorted, i, outputs) ==
    IF i > Len(sorted) THEN outputs
    ELSE LET p == FindNode(ns, sorted[i])
         IN IF p = 0 THEN EvalSorted(ns, conns, ms, sorted, i + 1, outputs)
            ELSE LET node == ns[p]
                     inputValues == InputValues(node, conns, outputs)
                     after == IF IsModuleCall(node, ms)
                              THEN LET moduleDef == ms[FindModule(ms, node.moduleId)]
                                   IN AfterModuleCall(outputs, node.id, moduleDef,
                                          evaluateCircuit(InternalNodes(moduleDef, inputValues),
                                                          moduleDef.connections, ms))
                              ELSE SetOutput(outputs, node.id, SimpleOutput(node, inputValues))
                 IN EvalSorted(ns, conns, ms, sorted, i + 1, after)

\* lines 192-306
evaluateCircuit(ns, conns, ms) ==
    EvalSorted(ns, conns, ms, EvalKahnLoop(EvalStart(ns, conns)).sorted, 1, <<>>)

(***************************************************************************)
(* Node construction (the Canvas' handlePointerDown) and the input spaces  *)
(* the engine functions are applied to.                                    *)
(***************************************************************************)

\* GATE_CONFIGS (part_002 52-60); a kind without an entry gets no pins
GateConfig(type) ==
    CASE type \in {"AND", "OR"}     -> [inputCount |-> 2, outputCount |-> 1]
      [] type = "NOT"               -> [inputCount |-> 1, outputCount |-> 1]
      [] type = "INPUT"             -> [inputCount |-> 0, outputCount |-> 1]
      [] type \in {"OUTPUT", "LED"} -> [inputCount |-> 1, outputCount |-> 0]
      [] type = "PINBAR"            -> [inputCount |-> 0, outputCount |-> 4]
      [] OTHER                      -> [inputCount |-> 0, outputCount |-> 0]

\* CircuitContext.tsx 171-176: the node a placed tool creates
NewNode(id, type) ==
    [id |-> id, type |-> type,
     inputCount |-> GateConfig(type).inputCount,
     outputCount |-> GateConfig(type).outputCount,
     inputValue |-> IF type = "INPUT" THEN <<FALSE>> ELSE <<>>,
     moduleId |-> 0, pinBarMode |-> "undefined", pinBarValues |-> <<>>]

\* CircuitContext.tsx 250: the connection a completed wire creates
NewConnection(id, fromNodeId, fromPinIndex, toNodeId, toPinIndex) ==
    [id |-> id, fromNodeId |-> fromNodeId, fromPinIndex |-> fromPinIndex,
     toNodeId |-> toNodeId, toPinIndex |-> toPinIndex]

NoOp == [name |-> "none", from |-> 0, to |-> 0]

\* Connection lists of at most MaxConns wires among the ids 1..MaxNodes, the
\* connection at position i having id i
Wires(fromPins, toPins) ==
    {<<f, fp, t, tp>> : f \in 1..MaxNodes, fp \in fromPins, t \in 1..MaxNodes, tp \in toPins}

ConnLists(fromPins, toPins) ==
    UNION {{[i \in 1..k |-> NewConnection(i, w[i][1], w[i][2], w[i][3], w[i][4])] :
                w \in [1..k -> Wires(fromPins, toPins)]} : k \in 0..MaxConns}

\* No wire ends at a node without input pins (the UI offers no such pin)
NoWireIntoSource(ns, conns) ==
    \A i \in DOMAIN conns : \A p \in DOMAIN ns :
        ns[p].id = conns[i].toNodeId => conns[i].toPinIndex < ns[p].inputCount

(***************************************************************************)
(* SpecCycle: the cycle detector and the pre-commit check applied to       *)
(* arbitrary connection lists.  With fewer than MaxNodes nodes in the list *)
(* the wires naming the missing ids are dangling.                          *)
(***************************************************************************)
InitCycle ==
    /\ \E n \in (MaxNodes - 1)..MaxNodes :
         \E types \in [1..n -> {"INPUT", "AND"}] :
            nodes = [i \in 1..n |-> NewNode(i, types[i])]
    /\ connections \in ConnLists({0}, {0, 1})
    /\ NoWireIntoSource(nodes, connections)
    /\ modules = <<>>
    /\ op = NoOp
    /\ cycleConnectionIds = <<>>
    /\ wccResult = FALSE
    /\ nodeOutputs = <<>>
    /\ pc = "idle"
    /\ loop = <<>>
    /\ stack = <<>>
    /\ CanvasAtRest

\* cycleConnectionIds = detectCycleConnections(state.nodes, state.connections)
Detect ==
    /\ op.name = "none"
    /\ cycleConnectionIds' = detectCycleConnections(nodes, connections)
    /\ op' = [name |-> "detect", from |-> 0, to |-> 0]
    /\ UNCHANGED <<nodes, connections, modules, wccResult, nodeOutputs, pc, loop, stack>>
    /\ UNCHANGED canvas

\* wouldCreateCycle(connections, fromData.nodeId, toData.nodeId)
WouldCreate ==
    /\ op.name = "none"
    /\ \E f \in 1..MaxNodes, t \in 1..MaxNodes :
          /\ wccResult' = wouldCreateCycle(connections, f, t)
          /\ op' = [name |-> "wcc", from |-> f, to |-> t]
    /\ UNCHANGED <<nodes, connections, modules, cycleConnectionIds, nodeOutputs, pc, loop, stack>>
    /\ UNCHANGED canvas

NextCycle == Detect \/ WouldCreate

SpecCycle == InitCycle /\ [][NextCycle]_vars

(***************************************************************************)
(* Graph notions the claims are stated with (not taken from the code).     *)
(***************************************************************************)

\* The wires both of whose endpoints are nodes of the list
ValidConns(ns, conns) ==
    {i \in DOMAIN conns : conns[i].fromNodeId \in NodeIds(ns) /\ conns[i].toNodeId \in NodeIds(ns)}

\* Directed edges <<from, to>> of a set of wires
EdgesOf(conns, I) == {<<conns[i].fromNodeId, conns[i].toNodeId>> : i \in I}

Successors(E, S) == {e[2] : e \in {d \in E : d[1] \in S}}

RECURSIVE Closure(_, _)
Closure(E, S) ==
    LET T == S \cup Successors(E, S) IN IF T = S THEN S ELSE Closure(E, T)

\* Nodes reachable from a by one or more edges
ReachablePlus(E, a) == Closure(E, Successors(E, {a}))

HasCycle(E) == \E e \in E : e[1] \in ReachablePlus(E, e[1])

\* The edge <<f, t>> lies on a directed cycle
EdgeOnCycle(E, f, t) == f = t \/ f \in ReachablePlus(E, t)

\* Nodes that receive two or more wires from one and the same source node
DoublyDriven(ns, conns) ==
    {conns[i].toNodeId : i \in {i \in ValidConns(ns, conns) :
        \E j \in ValidConns(ns, conns) :
            j # i /\ conns[j].fromNodeId = conns[i].fromNodeId
                  /\ conns[j].toNodeId = conns[i].toNodeId}}

\* Nodes on a directed cycle
CyclicNodes(E) == {e[1] : e \in {d \in E : d[1] \in ReachablePlus(E, d[1])}}

\* Nodes on or downstream of a directed cycle or of a doubly driven node
Stuck(ns, conns) ==
    LET E == EdgesOf(conns, ValidConns(ns, conns))
    IN Closure(E, CyclicNodes(E) \cup DoublyDriven(ns, conns))

ScopeEdges == EdgesOf(connections, ValidConns(nodes, connections))

Detected == op.name = "detect"

\* C1: for an acyclic scope (wires with a missing endpoint not counted)
\* detectCycleConnections returns the empty list.
C1_AcyclicGivesEmpty ==
    (Detected /\ ~HasCycle(ScopeEdges)) => cycleConnectionIds = <<>>

\* C5 as stated: a connection id is in the result if and only if the
\* connection lies on a directed cycle of the scope.
C5_ExactlyCycleEdges ==
    Detected =>
        Range(cycleConnectionIds) =
            {connections[i].id : i \in {i \in ValidConns(nodes, connections) :
                EdgeOnCycle(ScopeEdges, connections[i].fromNodeId, connections[i].toNodeId)}}

\* C5 amended: a connection id is in the result if and only if both of the
\* connection's endpoints are nodes on, or downstream of, a directed cycle or a
\* node that receives two or more wires from the same source node.
C5_ExactlyStuckEdges ==
    Detected =>
        /\ Range(cycleConnectionIds) =
              {connections[i].id : i \in {i \in DOMAIN connections :
                  /\ connections[i].fromNodeId \in Stuck(nodes, connections)
                  /\ connections[i].toNodeId \in Stuck(nodes, connections)}}
        /\ Len(cycleConnectionIds) = Cardinality(Range(cycleConnectionIds))

\* C5 witness: a reported wire that is on no cycle, in a scope that has a cycle
C5_Witness ==
    /\ Detected
    /\ HasCycle(ScopeEdges)
    /\ \E i \in ValidConns(nodes, connections) :
          /\ connections[i].id \in Range(cycleConnectionIds)
          /\ ~EdgeOnCycle(ScopeEdges, connections[i].fromNodeId, connections[i].toNodeId)

\* The scenario of the spec: G1.out0 -> G2.in0 and G2.out0 -> G1.in1, with
\* G1.in0 driven by an INPUT  (I = node 1, G1 = node 2, G2 = node 3)
FeedbackScenario ==
    /\ Len(nodes) = 3 /\ nodes[1].type = "INPUT"
    /\ nodes[2].type = "AND" /\ nodes[3].type = "AND"
    /\ connections = <<NewConnection(1, 1, 0, 2, 0),
                       NewConnection(2, 2, 0, 3, 0),
                       NewConnection(3, 3, 0, 2, 1)>>

\* C6: no false negatives: every wire on a directed cycle is in the result;
\* a wire whose source node Kahn's peeling removes (it is neither on nor
\* downstream of a cycle or a doubly driven node) is not; and in the feedback
\* scenario the result is exactly the two wires between the gates.
C6_NoFalseNegatives ==
    Detected =>
        /\ \A i \in ValidConns(nodes, connections) :
              EdgeOnCycle(ScopeEdges, connections[i].fromNodeId, connections[i].toNodeId)
                  => connections[i].id \in Range(cycleConnectionIds)
        /\ \A i \in DOMAIN connections :
              connections[i].fromNodeId \notin Stuck(nodes, connections)
                  => connections[i].id \notin Range(cycleConnectionIds)
        /\ FeedbackScenario => cycleConnectionIds = <<2, 3>>

C6_Witness == Detected /\ FeedbackScenario

WccApplied == op.name = "wcc"

AllEdges == EdgesOf(connections, DOMAIN connections)

\* C7: wouldCreateCycle(connections, from, to) is true if and only if from = to
\* or from is reachable from to along the connections.
C7_TrueIffReachable ==
    WccApplied =>
        (wccResult <=> (op.from = op.to \/ op.from \in ReachablePlus(AllEdges, op.to)))

\* C7 witness: a true answer that needs a path of two wires
C7_Witness ==
    /\ WccApplied /\ wccResult /\ op.from # op.to
    /\ <<op.to, op.from>> \notin AllEdges

\* C8: a candidate edge from a node to itself is always reported as
\* cycle-creating, whatever the connection list, the empty one included.
C8_SelfLoopAlwaysTrue ==
    (WccApplied /\ op.from = op.to) => wccResult = TRUE

\* C8 witness: a self-loop query on the empty connection list
C8_Witness == WccApplied /\ op.from = op.to /\ connections = <<>> /\ wccResult

\* Nodes on or downstream of a directed cycle
LeftOutOf(E) == Closure(E, CyclicNodes(E))

\* The nodes the Kahn pass of evaluateCircuit never dequeues
NeverDequeued ==
    NodeIds(nodes) \ Range(EvalKahnLoop(EvalStart(nodes, connections)).sorted)

\* The nodes the Kahn pass of detectCycleConnections never processes
NeverProcessed ==
    CycleNodes(nodes, DetectKahnLoop(DetectStart(nodes, connections)).processed)

\* C22: for every scope, the nodes evaluateCircuit's Kahn pass never dequeues
\* are the nodes detectCycleConnections' Kahn pass never processes.
C22_SameNodesLeftOut ==
    Detected => NeverDequeued = NeverProcessed

\* The two passes agree on every scope in which no node receives two
\* connections from one source node; in general the detector leaves out the
\* nodes the evaluator leaves out and those on or downstream of such a node
SameNodesLeftOutButDoublyDriven ==
    /\ NeverDequeued = LeftOutOf(ScopeEdges)
    /\ NeverProcessed = Stuck(nodes, connections)
    /\ DoublyDriven(nodes, connections) = {} => NeverDequeued = NeverProcessed

(***************************************************************************)
(* SpecEval: evaluateCircuit applied to scopes of gates.  Every node has   *)
(* the pin counts GATE_CONFIGS gives its kind, and every wire ends at an   *)
(* input pin its destination has.                                          *)
(***************************************************************************)
EvalKinds == {"INPUT", "AND", "OR", "NOT", "OUTPUT"}

\* A kind with the held value of an INPUT (only an INPUT holds one)
NodeChoices == {<<t, b>> \in EvalKinds \X BOOLEAN : t = "INPUT" \/ b = FALSE}

ChosenNode(id, choice) ==
    IF choice[1] = "INPUT" THEN WithInputValue(NewNode(id, "INPUT"), choice[2])
    ELSE NewNode(id, choice[1])

\* Connection lists without repeated wires, listed in one order (by source,
\* then destination)
WireKey(w) == ((w[1] * 2 + w[2]) * (MaxNodes + 1) + w[3]) * 2 + w[4]

OrderedConnLists(fromPins, toPins) ==
    UNION {{[i \in 1..k |-> NewConnection(i, w[i][1], w[i][2], w[i][3], w[i][4])] :
                w \in {v \in [1..k -> Wires(fromPins, toPins)] :
                          \A i \in 1..k : \A j \in 1..k : i < j => WireKey(v[i]) < WireKey(v[j])}}
           : k \in 0..MaxConns}

InitEval ==
    /\ connections \in OrderedConnLists({0}, {0, 1})
    /\ \E choice \in [1..MaxNodes -> NodeChoices] :
          nodes = [i \in 1..MaxNodes |-> ChosenNode(i, choice[i])]
    /\ NoWireIntoSource(nodes, connections)
    /\ modules = <<>>
    /\ op = NoOp
    /\ cycleConnectionIds = <<>>
    /\ wccResult = FALSE
    /\ nodeOutputs = <<>>
    /\ pc = "idle"
    /\ loop = <<>>
    /\ stack = <<>>
    /\ CanvasAtRest

\* nodeOutputs = evaluateCircuit(state.nodes, state.connections, state.modules)
Evaluate ==
    /\ op.name = "none"
    /\ nodeOutputs' = evaluateCircuit(nodes, connections, modules)
    /\ op' = [name |-> "eval", from |-> 0, to |-> 0]
    /\ UNCHANGED <<nodes, connections, modules, cycleConnectionIds, wccResult, pc, loop, stack>>
    /\ UNCHANGED canvas

NextEval == Evaluate

SpecEval == InitEval /\ [][NextEval]_vars

Evaluated == op.name = "eval"

\* Each input pin is the destination of at most one wire
SingleDriver(conns) ==
    \A i \in DOMAIN conns : \A j \in DOMAIN conns :
        (conns[i].toNodeId = conns[j].toNodeId /\ conns[i].toPinIndex = conns[j].toPinIndex)
            => i = j

\* The wires that end at input pin i of node n
Drivers(n, i) ==
    {j \in DOMAIN connections :
        connections[j].toNodeId = n /\ connections[j].toPinIndex = i}

\* The value the returned mapping holds at the source pin of wire j
\* (false when the source has no entry or no such pin)
SourceValue(j) ==
    LET c == connections[j]
    IN /\ c.fromNodeId \in DOMAIN nodeOutputs
       /\ c.fromPinIndex + 1 \in DOMAIN nodeOutputs[c.fromNodeId]
       /\ nodeOutputs[c.fromNodeId][c.fromPinIndex + 1]

\* The value arriving at input pin i of node n: that of the first listed wire
\* into the pin, false when the pin is unconnected
Arriving(n, i) ==
    /\ Drivers(n, i) # {}
    /\ SourceValue(CHOOSE j \in Drivers(n, i) : \A h \in Drivers(n, i) : j <= h)

\* What a gate of the kind computes from the values arriving at its pins
KindFunction(node) ==
    CASE node.type = "AND"   -> Arriving(node.id, 0) /\ Arriving(node.id, 1)
      [] node.type = "OR"    -> Arriving(node.id, 0) \/ Arriving(node.id, 1)
      [] node.type = "NOT"   -> ~Arriving(node.id, 0)
      [] node.type = "INPUT" -> node.inputValue = <<TRUE>>
      [] node.type \in {"OUTPUT", "LED"} -> Arriving(node.id, 0)

\* I1 and I2 wired to the two pins of gate G (I1 = node 1, I2 = node 2, G = node 3)
TwoInputScenario(kind, v1, v2) ==
    /\ nodes = <<WithInputValue(NewNode(1, "INPUT"), v1),
                 WithInputValue(NewNode(2, "INPUT"), v2),
                 NewNode(3, kind)>>
    /\ connections = <<NewConnection(1, 1, 0, 3, 0), NewConnection(2, 2, 0, 3, 1)>>

\* C2: the mapping evaluateCircuit returns has an entry for every node of the
\* node list, also when the connections contain a directed cycle.
C2_EveryNodeHasEntry ==
    Evaluated => DOMAIN nodeOutputs = NodeIds(nodes)

\* C3: in an acyclic scope whose input pins have at most one driver each, every
\* node has an entry and it is the kind function of the final values at the
\* source pins of its wires; AND fed true, false gives [false] and OR fed true,
\* true gives [true].
C3_TopologicalValues ==
    (Evaluated /\ ~HasCycle(ScopeEdges) /\ SingleDriver(connections)) =>
        /\ \A p \in DOMAIN nodes :
              /\ nodes[p].id \in DOMAIN nodeOutputs
              /\ nodeOutputs[nodes[p].id] = <<KindFunction(nodes[p])>>
        /\ TwoInputScenario("AND", TRUE, FALSE) => nodeOutputs[3] = <<FALSE>>
        /\ TwoInputScenario("OR", TRUE, TRUE) => nodeOutputs[3] = <<TRUE>>

\* C3 witness: a chain 3 -> 2 -> 1 against the list order, carrying a true value
C3_Witness ==
    /\ Evaluated /\ ~HasCycle(ScopeEdges) /\ SingleDriver(connections)
    /\ nodes[3].type = "INPUT" /\ nodes[2].type = "OR" /\ nodes[1].type = "OUTPUT"
    /\ \E i \in DOMAIN connections, j \in DOMAIN connections :
          /\ connections[i].fromNodeId = 3 /\ connections[i].toNodeId = 2
          /\ connections[j].fromNodeId = 2 /\ connections[j].toNodeId = 1
    /\ nodeOutputs[1] = <<TRUE>>

\* The input pins of node n (of the two a gate has) that a wire ends at
ConnectedPins(n) == {i \in {0, 1} : Drivers(n, i) # {}}

\* C4 as stated: an AND or OR gate with fewer than two connected input pins
\* outputs [false], whatever arrives at the connected pin.
C4_PartlyConnectedGateFalse ==
    Evaluated =>
        \A p \in DOMAIN nodes :
            (/\ nodes[p].type \in {"AND", "OR"}
             /\ nodes[p].id \in DOMAIN nodeOutputs
             /\ Cardinality(ConnectedPins(nodes[p].id)) # 2)
                => nodeOutputs[nodes[p].id] = <<FALSE>>

\* C4 amended: an AND gate with fewer than two connected input pins outputs
\* [false]; an OR gate reads an unconnected pin as false, so with no pin
\* connected it outputs [false] and with one pin connected it outputs the value
\* arriving at that pin.
C4_UnconnectedPinReadsFalse ==
    Evaluated =>
        \A p \in DOMAIN nodes :
            (/\ nodes[p].type \in {"AND", "OR"}
             /\ nodes[p].id \in DOMAIN nodeOutputs
             /\ Cardinality(ConnectedPins(nodes[p].id)) # 2)
                => nodeOutputs[nodes[p].id] =
                      <<IF nodes[p].type = "AND" THEN FALSE
                        ELSE \E i \in ConnectedPins(nodes[p].id) : Arriving(nodes[p].id, i)>>

\* C4 witness: an OR gate with exactly one pin connected, to a true source
C4_Witness ==
    /\ Evaluated
    /\ \E p \in DOMAIN nodes :
          /\ nodes[p].type = "OR"
          /\ Cardinality(ConnectedPins(nodes[p].id)) = 1
          /\ \E i \in ConnectedPins(nodes[p].id) : Arriving(nodes[p].id, i)
          /\ nodes[p].id \in DOMAIN nodeOutputs
          /\ nodeOutputs[nodes[p].id] = <<TRUE>>

\* The input pins of node n that no wire ends at
FloatingPins(n) == {i \in 0..(n.inputCount - 1) : Drivers(n.id, i) = {}}

\* C14: for every evaluated node and every input pin no connection ends at,
\* the input value used at the pin is false, so the node's output is its kind's
\* function with false at that pin; a NOT node with no incoming connection
\* outputs [true].
C14_FloatingPinIsFalse ==
    Evaluated =>
        \A p \in DOMAIN nodes :
            nodes[p].id \in DOMAIN nodeOutputs =>
                /\ \A i \in FloatingPins(nodes[p]) :
                      /\ InputValues(nodes[p], connections, nodeOutputs)[i + 1] = FALSE
                      /\ InputValues(nodes[p], connections, <<>>)[i + 1] = FALSE
                /\ FloatingPins(nodes[p]) # {} =>
                      nodeOutputs[nodes[p].id] = <<KindFunction(nodes[p])>>
                /\ (nodes[p].type = "NOT" /\ FloatingPins(nodes[p]) = {0}) =>
                      nodeOutputs[nodes[p].id] = <<TRUE>>

\* C14 witness: an evaluated NOT with no incoming connection next to an
\* evaluated OR whose one connected pin carries true
C14_Witness ==
    /\ Evaluated
    /\ \E p \in DOMAIN nodes :
          /\ nodes[p].type = "NOT" /\ FloatingPins(nodes[p]) = {0}
          /\ nodes[p].id \in DOMAIN nodeOutputs
          /\ nodeOutputs[nodes[p].id] = <<TRUE>>
    /\ \E q \in DOMAIN nodes :
          /\ nodes[q].type = "OR" /\ Cardinality(FloatingPins(nodes[q])) = 1
          /\ nodes[q].id \in DOMAIN nodeOutputs
          /\ nodeOutputs[nodes[q].id] = <<TRUE>>

\* The orders a list of n elements can be put in, and a list put in one of them
Orders(n) == {f \in [1..n -> 1..n] : \A i \in 1..n : \A j \in 1..n : f[i] = f[j] => i = j}

Reordered(list, f) == [i \in DOMAIN list |-> list[f[i]]]

\* C19: for an acyclic scope, evaluateCircuit applied again to the same lists
\* returns the same mapping, the mapping is the same for every order of the
\* node list, and, when each input pin has at most one driver, for every order
\* of the connection list as well.
C19_OrderIndependent ==
    (Evaluated /\ ~HasCycle(ScopeEdges)) =>
        /\ evaluateCircuit(nodes, connections, modules) = nodeOutputs
        /\ \A f \in Orders(Len(nodes)) :
              /\ evaluateCircuit(Reordered(nodes, f), connections, modules) = nodeOutputs
              /\ SingleDriver(connections) =>
                    \A g \in Orders(Len(connections)) :
                        evaluateCircuit(Reordered(nodes, f), Reordered(connections, g), modules)
                            = nodeOutputs

\* C19 witness: an AND listed before both of its sources, a true INPUT and an
\* unconnected NOT, outputs [true]
C19_Witness ==
    /\ Evaluated /\ ~HasCycle(ScopeEdges) /\ SingleDriver(connections)
    /\ nodes[1].type = "AND" /\ nodes[2].type = "NOT" /\ nodes[3].type = "INPUT"
    /\ Len(connections) = 2
    /\ \E i \in DOMAIN connections, j \in DOMAIN connections :
          /\ connections[i].fromNodeId = 3 /\ connections[i].toNodeId = 1
          /\ connections[j].fromNodeId = 2 /\ connections[j].toNodeId = 1
          /\ connections[i].toPinIndex # connections[j].toPinIndex
    /\ nodeOutputs[1] = <<TRUE>>

\* The connection list without the wires that leave a node on or downstream of
\* a directed cycle
WithoutWiresFromLeftOut ==
    LET kept(i) == connections[i].fromNodeId \notin LeftOutOf(ScopeEdges)
        idx == SelectSeq([i \in DOMAIN connections |-> i], kept)
    IN [k \in DOMAIN idx |-> connections[idx[k]]]

\* C30: in a scope with a directed cycle, every node neither on a cycle nor
\* reachable from one has an entry, equal to its output in the scope without
\* the connections that leave cycle-implicated nodes; a node that was not
\* evaluated has no entry and is read as false by a consumer of any of its
\* pins.
C30_CleanNodesEvaluated ==
    (Evaluated /\ HasCycle(ScopeEdges)) =>
        LET pruned == evaluateCircuit(nodes, WithoutWiresFromLeftOut, modules)
        IN \A p \in DOMAIN nodes :
              IF nodes[p].id \notin LeftOutOf(ScopeEdges)
              THEN /\ nodes[p].id \in DOMAIN nodeOutputs
                   /\ nodes[p].id \in DOMAIN pruned
                   /\ nodeOutputs[nodes[p].id] = pruned[nodes[p].id]
                   /\ SingleDriver(connections) =>
                         nodeOutputs[nodes[p].id] = <<KindFunction(nodes[p])>>
              ELSE /\ nodes[p].id \notin DOMAIN nodeOutputs
                   /\ \A i \in 0..1 : At(OutputsOf(nodeOutputs, nodes[p].id), i) = FALSE
                   /\ \A j \in DOMAIN connections :
                         connections[j].fromNodeId = nodes[p].id => ~SourceValue(j)

\* C30 witness: next to a cycle, a gate off the cycle outputs [true] and feeds
\* a node that is on the cycle
C30_Witness ==
    /\ Evaluated /\ HasCycle(ScopeEdges)
    /\ \E p \in DOMAIN nodes, q \in DOMAIN nodes, j \in DOMAIN connections :
          /\ nodes[p].type \in {"OR", "NOT"}
          /\ nodes[p].id \notin LeftOutOf(ScopeEdges)
          /\ nodeOutputs[nodes[p].id] = <<TRUE>>
          /\ nodes[q].id \in CyclicNodes(ScopeEdges)
          /\ nodes[q].id \notin DOMAIN nodeOutputs
          /\ connections[j].fromNodeId = nodes[p].id
          /\ connections[j].toNodeId = nodes[q].id

(***************************************************************************)
(* SpecRun: the three engine functions run one loop iteration at a time.   *)
(* pc is the running function ("idle" before the call, "done" after its    *)
(* return); loop is the loop state of detectCycleConnections or            *)
(* wouldCreateCycle; stack holds one frame per active evaluateCircuit      *)
(* call, the innermost last.                                               *)
(***************************************************************************)
RunNodes == 2
RunConns == 2
MaxModules == 2

\* With definitions that do not reference themselves a chain of nested calls
\* passes through distinct definitions, so it has at most MaxModules + 1 frames
MaxDepth == MaxModules + 1

\* SideMenu.tsx 38-47: the definition createModule snapshots from a canvas
CreateModule(id, ns, conns) ==
    LET isInput(i)  == ns[i].type = "INPUT"
        isOutput(i) == ns[i].type = "OUTPUT"
        inIdx  == SelectSeq([i \in DOMAIN ns |-> i], isInput)
        outIdx == SelectSeq([i \in DOMAIN ns |-> i], isOutput)
    IN [id |-> id, nodes |-> ns, connections |-> conns,
        inputNodeIds  |-> [k \in DOMAIN inIdx |-> ns[inIdx[k]].id],
        outputNodeIds |-> [k \in DOMAIN outIdx |-> ns[outIdx[k]].id],
        inputCount |-> Len(inIdx), outputCount |-> Len(outIdx)]

\* CircuitContext.tsx 167: the node a placed module tool creates; every
\* definition of the tables below has one INPUT and one OUTPUT
NewModuleNode(id, moduleId) ==
    [id |-> id, type |-> "MODULE", inputCount |-> 1, outputCount |-> 1,
     inputValue |-> <<>>, moduleId |-> moduleId,
     pinBarMode |-> "undefined", pinBarValues |-> <<>>]

\* A node of kind "NOT", or an instance of definition m for m in 1..MaxModules
InnerChoices == {0} \cup (1..MaxModules)

InnerNode(id, c) == IF c = 0 THEN NewNode(id, "NOT") ELSE NewModuleNode(id, c)

\* A definition  INPUT(1) -> inner(2) -> OUTPUT(3);  with loopBack the inner
\* node's pin is driven by the inner node itself instead of the INPUT
ModuleBody(id, c, loopBack) ==
    CreateModule(id,
        <<NewNode(1, "INPUT"), InnerNode(2, c), NewNode(3, "OUTPUT")>>,
        <<NewConnection(1, IF loopBack THEN 2 ELSE 1, 0, 2, 0),
          NewConnection(2, 2, 0, 3, 0)>>)

ModuleTables ==
    {[m \in 1..MaxModules |-> ModuleBody(m, c[m], l[m])] :
        c \in [1..MaxModules -> InnerChoices], l \in [1..MaxModules -> BOOLEAN]}

\* Connection lists of at most RunConns wires among the ids 1..RunNodes
RunConnLists ==
    UNION {{[i \in 1..k |-> NewConnection(i, w[i][1], 0, w[i][2], w[i][3])] :
                w \in [1..k -> (1..RunNodes) \X (1..RunNodes) \X {0, 1}]}
           : k \in 0..RunConns}

\* An INPUT holding false or true, or an AND gate
RunChoices == {<<"INPUT", FALSE>>, <<"INPUT", TRUE>>, <<"AND", FALSE>>}

\* Scopes of gates without a module library, and scopes whose last node is an
\* instance of a definition of the library
InitRun ==
    /\ \/ /\ modules = <<>>
          /\ \E choice \in [1..RunNodes -> RunChoices] :
                nodes = [i \in 1..RunNodes |-> ChosenNode(i, choice[i])]
       \/ /\ modules \in ModuleTables
          /\ \E choice \in [1..(RunNodes - 1) -> RunChoices], m \in 1..MaxModules :
                nodes = [i \in 1..RunNodes |->
                            IF i < RunNodes THEN ChosenNode(i, choice[i])
                            ELSE NewModuleNode(i, m)]
    /\ connections \in RunConnLists
    /\ NoWireIntoSource(nodes, connections)
    /\ op = NoOp
    /\ cycleConnectionIds = <<>>
    /\ wccResult = FALSE
    /\ nodeOutputs = <<>>
    /\ pc = "idle"
    /\ loop = <<>>
    /\ stack = <<>>
    /\ CanvasAtRest

\* detectCycleConnections, lines 312-331
StartDetect ==
    /\ pc = "idle"
    /\ pc' = "detect"
    /\ op' = [name |-> "detect", from |-> 0, to |-> 0]
    /\ loop' = DetectStart(nodes, connections)
    /\ UNCHANGED <<nodes, connections, modules, cycleConnectionIds, wccResult, nodeOutputs, stack>>
    /\ UNCHANGED canvas

\* lines 332-339: one iteration of the while loop
DetectStep ==
    /\ pc = "detect"
    /\ loop.queue # <<>>
    /\ loop' = DetectKahnStep(loop)
    /\ UNCHANGED <<nodes, connections, modules, op, cycleConnectionIds, wccResult, nodeOutputs, pc, stack>>
    /\ UNCHANGED canvas

\* lines 341-344: the loop has ended
DetectReturn ==
    /\ pc = "detect"
    /\ loop.queue = <<>>
    /\ cycleConnectionIds' = DetectFinish(nodes, connections, loop.processed)
    /\ pc' = "done"
    /\ loop' = <<>>
    /\ UNCHANGED <<nodes, connections, modules, op, wccResult, nodeOutputs, stack>>
    /\ UNCHANGED canvas

\* wouldCreateCycle, lines 352-359
StartWcc ==
    /\ pc = "idle"
    /\ \E f \in 1..RunNodes, t \in 1..RunNodes :
          /\ op' = [name |-> "wcc", from |-> f, to |-> t]
          /\ IF WccSelfLoop(f, t)
             THEN /\ wccResult' = TRUE
                  /\ pc' = "done"
                  /\ loop' = loop
             ELSE /\ wccResult' = wccResult
                  /\ pc' = "wcc"
                  /\ loop' = WccStart(t)
    /\ UNCHANGED <<nodes, connections, modules, cycleConnectionIds, nodeOutputs, stack>>
    /\ UNCHANGED canvas

\* lines 360-366: one iteration of the while loop
WccIterate ==
    /\ pc = "wcc"
    /\ ~loop.found /\ loop.queue # <<>>
    /\ loop' = WccStep(connections, op.from, loop)
    /\ UNCHANGED <<nodes, connections, modules, op, cycleConnectionIds, wccResult, nodeOutputs, pc, stack>>
    /\ UNCHANGED canvas

\* lines 362, 367: return true from the loop, or false after it
WccReturn ==
    /\ pc = "wcc"
    /\ loop.found \/ loop.queue = <<>>
    /\ wccResult' = loop.found
    /\ pc' = "done"
    /\ loop' = <<>>
    /\ UNCHANGED <<nodes, connections, modules, op, cycleConnectionIds, nodeOutputs, stack>>
    /\ UNCHANGED canvas

\* lines 192-197: the state of a call of evaluateCircuit at its entry
NewFrame(ns, conns) ==
    [ns |-> ns, conns |-> conns, at |-> "entry", kahn |-> <<>>, i |-> 1, outputs |-> <<>>]

Top == stack[Len(stack)]

\* The frame is in the for loop over sorted, at a node of the list
AtNode(f) ==
    /\ f.at = "loops"
    /\ f.kahn.queue = <<>>
    /\ f.i <= Len(f.kahn.sorted)
    /\ FindNode(f.ns, f.kahn.sorted[f.i]) # 0

CurrentNode(f) == f.ns[FindNode(f.ns, f.kahn.sorted[f.i])]

\* The frame has run through sorted (line 305)
Finished(f) == f.at = "loops" /\ f.kahn.queue = <<>> /\ f.i > Len(f.kahn.sorted)

\* evaluateCircuit(state.nodes, state.connections, state.modules) is called
StartEval ==
    /\ pc = "idle"
    /\ pc' = "eval"
    /\ op' = [name |-> "eval", from |-> 0, to |-> 0]
    /\ stack' = <<NewFrame(nodes, connections)>>
    /\ UNCHANGED <<nodes, connections, modules, cycleConnectionIds, wccResult, nodeOutputs, loop>>
    /\ UNCHANGED canvas

\* lines 199-220: the call builds its adjacency, in-degrees and queue
EvalBegin ==
    /\ pc = "eval"
    /\ Top.at = "entry"
    /\ stack' = [stack EXCEPT ![Len(stack)].kahn = EvalStart(Top.ns, Top.conns),
                              ![Len(stack)].at = "loops"]
    /\ UNCHANGED <<nodes, connections, modules, op, cycleConnectionIds, wccResult, nodeOutputs, pc, loop>>
    /\ UNCHANGED canvas

\* lines 221-228: one iteration of the while loop
EvalKahn ==
    /\ pc = "eval"
    /\ Top.at = "loops"
    /\ Top.kahn.queue # <<>>
    /\ stack' = [stack EXCEPT ![Len(stack)].kahn = EvalKahnStep(@)]
    /\ UNCHANGED <<nodes, connections, modules, op, cycleConnectionIds, wccResult, nodeOutputs, pc, loop>>
    /\ UNCHANGED canvas

\* lines 230-303: one iteration of the for loop that makes no recursive call
\* (line 232 skips an id that is not in the node list)
EvalNode ==
    /\ pc = "eval"
    /\ Top.at = "loops"
    /\ Top.kahn.queue = <<>>
    /\ Top.i <= Len(Top.kahn.sorted)
    /\ IF FindNode(Top.ns, Top.kahn.sorted[Top.i]) = 0
       THEN stack' = [stack EXCEPT ![Len(stack)].i = @ + 1]
       ELSE /\ ~IsModuleCall(CurrentNode(Top), modules)
            /\ LET node == CurrentNode(Top)
                   out  == SimpleOutput(node, InputValues(node, Top.conns, Top.outputs))
               IN stack' = [stack EXCEPT ![Len(stack)].outputs = SetOutput(@, node.id, out),
                                         ![Len(stack)].i = @ + 1]
    /\ UNCHANGED <<nodes, connections, modules, op, cycleConnectionIds, wccResult, nodeOutputs, pc, loop>>
    /\ UNCHANGED canvas

\* The substitution of lines 280-288 made on the stored nodes themselves
\* (n.inputValue = inputValues[idx] instead of { ...n, inputValue }): the
\* variant the purity of the engine is checked against
StoredAfterSubstitutionInPlace(ms, k, inputValues) ==
    [ms EXCEPT ![k].nodes = InternalNodes(ms[k], inputValues)]

\* lines 280-288: map() returns a new array and { ...n, inputValue } a new
\* object, so the stored definitions are what they were
StoredAfterSubstitution(ms, k, inputValues) == ms

\* lines 278-289: the recursive call for a MODULE node whose definition exists
EvalCall ==
    /\ pc = "eval"
    /\ AtNode(Top)
    /\ IsModuleCall(CurrentNode(Top), modules)
    /\ Len(stack) < MaxDepth
    /\ LET node      == CurrentNode(Top)
           moduleDef == modules[FindModule(modules, node.moduleId)]
           inputValues == InputValues(node, Top.conns, Top.outputs)
       IN /\ stack' = Append(stack, NewFrame(InternalNodes(moduleDef, inputValues),
                                             moduleDef.connections))
          /\ modules' = StoredAfterSubstitution(modules, FindModule(modules, node.moduleId),
                                                inputValues)
    /\ UNCHANGED <<nodes, connections, op, cycleConnectionIds, wccResult, nodeOutputs, pc, loop>>
    /\ UNCHANGED canvas

\* The same recursive call with MaxDepth calls active: a definition is being
\* expanded inside its own expansion, and the run is followed no further
EvalOverflow ==
    /\ pc = "eval"
    /\ AtNode(Top)
    /\ IsModuleCall(CurrentNode(Top), modules)
    /\ Len(stack) = MaxDepth
    /\ pc' = "overflow"
    /\ UNCHANGED <<nodes, connections, modules, op, cycleConnectionIds, wccResult, nodeOutputs, loop, stack>>
    /\ UNCHANGED canvas

\* lines 305, 289-294: a recursive call returns to the MODULE case of its caller
EvalReturn ==
    /\ pc = "eval"
    /\ Len(stack) > 1
    /\ Finished(Top)
    /\ LET caller    == stack[Len(stack) - 1]
           node      == CurrentNode(caller)
           moduleDef == modules[FindModule(modules, node.moduleId)]
       IN stack' = [SubSeq(stack, 1, Len(stack) - 1) EXCEPT
                        ![Len(stack) - 1].outputs =
                            AfterModuleCall(@, node.id, moduleDef, Top.outputs),
                        ![Len(stack) - 1].i = @ + 1]
    /\ UNCHANGED <<nodes, connections, modules, op, cycleConnectionIds, wccResult, nodeOutputs, pc, loop>>
    /\ UNCHANGED canvas

\* line 305: the outermost call returns
EvalFinish ==
    /\ pc = "eval"
    /\ Len(stack) = 1
    /\ Finished(Top)
    /\ nodeOutputs' = Top.outputs
    /\ pc' = "done"
    /\ stack' = <<>>
    /\ UNCHANGED <<nodes, connections, modules, op, cycleConnectionIds, wccResult, loop>>
    /\ UNCHANGED canvas

NextRun ==
    \/ StartDetect \/ DetectStep \/ DetectReturn
    \/ StartWcc \/ WccIterate \/ WccReturn
    \/ StartEval \/ EvalBegin \/ EvalKahn \/ EvalNode \/ EvalCall \/ EvalOverflow
    \/ EvalReturn \/ EvalFinish

\* The engine is synchronous and single-threaded: a started call keeps running
SpecRun == InitRun /\ [][NextRun]_vars /\ WF_vars(NextRun)

\* The definitions a definition instantiates
ModuleRefs(ms) ==
    UNION {{<<ms[i].id, ms[i].nodes[p].moduleId>> :
                p \in {q \in DOMAIN ms[i].nodes :
                          /\ ms[i].nodes[q].type = "MODULE"
                          /\ FindModule(ms, ms[i].nodes[q].moduleId) # 0}}
           : i \in DOMAIN ms}

\* The definitions that reference themselves, directly or transitively
SelfReferencing(ms) ==
    {ms[i].id : i \in {j \in DOMAIN ms : ms[j].id \in ReachablePlus(ModuleRefs(ms), ms[j].id)}}

\* The step-by-step runs return what the functions compute
RunAgrees ==
    pc = "done" =>
        /\ op.name = "detect" => cycleConnectionIds = detectCycleConnections(nodes, connections)
        /\ op.name = "wcc" => wccResult = wouldCreateCycle(connections, op.from, op.to)
        /\ op.name = "eval" => nodeOutputs = evaluateCircuit(nodes, connections, modules)

\* C9: with no module definition referencing itself, directly or transitively,
\* every call of evaluateCircuit, detectCycleConnections and wouldCreateCycle
\* returns, whatever cycles, self-loops and parallel wires the connections hold.
C9_EveryCallReturns ==
    <>(SelfReferencing(modules) # {} \/ pc = "done")

\* C9 witness: evaluateCircuit has returned for a scope with a directed cycle
\* and an instance of a definition that nests another one
C9_Witness ==
    /\ pc = "done" /\ op.name = "eval"
    /\ SelfReferencing(modules) = {}
    /\ ModuleRefs(modules) # {}
    /\ HasCycle(ScopeEdges)
    /\ nodes[RunNodes].type = "MODULE"
    /\ nodes[RunNodes].id \in DOMAIN nodeOutputs

\* C10: when the scope holds an instance of a definition that references
\* itself, directly or transitively, evaluateCircuit never returns.
C10_SelfReferenceNeverReturns ==
    (/\ op.name = "eval"
     /\ \E p \in DOMAIN nodes :
           /\ nodes[p].type = "MODULE"
           /\ nodes[p].moduleId \in SelfReferencing(modules))
        => pc # "done"

\* The nodes Kahn's ordering of evaluateCircuit leaves out of sorted: those on
\* or downstream of a directed cycle
LeftOut(E) == Closure(E, CyclicNodes(E))

\* The instance in the scope, and the inner node of every definition, are
\* reached by the order of their scope
InstancesReached ==
    /\ nodes[RunNodes].id \notin LeftOut(ScopeEdges)
    /\ \A i \in DOMAIN modules :
          2 \notin LeftOut(EdgesOf(modules[i].connections, DOMAIN modules[i].connections))

\* C10 holds wherever the order reaches the instances: the calls that return
\* are those in which an instance is left out of sorted
SelfReferenceReachedNeverReturns ==
    (/\ op.name = "eval"
     /\ nodes[RunNodes].type = "MODULE"
     /\ nodes[RunNodes].moduleId \in SelfReferencing(modules)
     /\ InstancesReached)
        => pc # "done"

ModConns == 2

\* CircuitContext.tsx 167: a placed instance takes its pin counts from the
\* definition
ModuleNode(id, mod) ==
    [id |-> id, type |-> "MODULE",
     inputCount |-> mod.inputCount, outputCount |-> mod.outputCount,
     inputValue |-> <<>>, moduleId |-> mod.id,
     pinBarMode |-> "undefined", pinBarValues |-> <<>>]

\* The canvas a definition is snapshotted from: INPUTs 1 and 2 holding h, a
\* gate 3 fed by INPUT 1 and by INPUT 2 (with loopBack: by itself), OUTPUT 4 fed
\* by the gate, OUTPUT 5 fed by INPUT tap (unconnected when tap = 0); with swap
\* INPUT 2 is listed before INPUT 1
GateCanvasNodes(kind, h, swap) ==
    (IF swap
     THEN <<WithInputValue(NewNode(2, "INPUT"), h[2]), WithInputValue(NewNode(1, "INPUT"), h[1])>>
     ELSE <<WithInputValue(NewNode(1, "INPUT"), h[1]), WithInputValue(NewNode(2, "INPUT"), h[2])>>)
    \o <<NewNode(3, kind), NewNode(4, "OUTPUT"), NewNode(5, "OUTPUT")>>

GateCanvasConns(loopBack, tap) ==
    <<NewConnection(1, 1, 0, 3, 0),
      NewConnection(2, IF loopBack THEN 3 ELSE 2, 0, 3, 1),
      NewConnection(3, 3, 0, 4, 0)>>
    \o (IF tap = 0 THEN <<>> ELSE <<NewConnection(4, tap, 0, 5, 0)>>)

GateDefs ==
    {CreateModule(1, GateCanvasNodes(kind, h, swap), GateCanvasConns(loopBack, tap)) :
        kind \in {"AND", "OR"}, h \in [1..2 -> BOOLEAN], swap \in BOOLEAN,
        loopBack \in BOOLEAN, tap \in 0..2}

\* Lists of at most ModConns different wires into the pins of node 3, from pin
\* 0 or 1 of node 1, 2 or 3
InstanceWires == {<<f, fp, 3, tp>> : f \in 1..3, fp \in {0, 1}, tp \in {0, 1}}

InstanceConnLists ==
    UNION {{[i \in 1..k |-> NewConnection(i, w[i][1], w[i][2], w[i][3], w[i][4])] :
                w \in {v \in [1..k -> InstanceWires] :
                          \A i \in 1..k : \A j \in 1..k : i < j => WireKey(v[i]) < WireKey(v[j])}}
           : k \in 0..ModConns}

InitModule ==
    /\ modules \in {<<d>> : d \in GateDefs}
    /\ \E b \in [1..2 -> BOOLEAN] :
          nodes = <<WithInputValue(NewNode(1, "INPUT"), b[1]),
                    WithInputValue(NewNode(2, "INPUT"), b[2]),
                    ModuleNode(3, modules[1])>>
    /\ connections \in InstanceConnLists
    /\ op = NoOp
    /\ cycleConnectionIds = <<>>
    /\ wccResult = FALSE
    /\ nodeOutputs = <<>>
    /\ pc = "idle"
    /\ loop = <<>>
    /\ stack = <<>>
    /\ CanvasAtRest

NextModule == Evaluate

SpecModule == InitModule /\ [][NextModule]_vars

\* The instance (node 3) has been evaluated
InstanceEvaluated == Evaluated /\ 3 \in DOMAIN nodeOutputs

\* The vector carried by the instance's input pins
InstanceInputs == [k \in 1..nodes[3].inputCount |-> Arriving(3, k - 1)]

\* The definition's nodes with the INPUT listed at position k of inputNodeIds
\* holding v[k]
Holding(D, v) ==
    [p \in DOMAIN D.nodes |->
        IF \E k \in DOMAIN D.inputNodeIds : D.inputNodeIds[k] = D.nodes[p].id
        THEN [D.nodes[p] EXCEPT !.inputValue =
                 <<v[CHOOSE k \in DOMAIN D.inputNodeIds : D.inputNodeIds[k] = D.nodes[p].id]>>]
        ELSE D.nodes[p]]

\* The first output a mapping holds for a node, false when there is none
FirstOutput(result, id) ==
    /\ id \in DOMAIN result
    /\ Len(result[id]) >= 1
    /\ result[id][1]

\* Parameters of the definition in the table
DefGate == modules[1].nodes[3].type
DefLoopBack == modules[1].connections[2].fromNodeId = 3
DefTap == IF Len(modules[1].connections) = 4 THEN modules[1].connections[4].fromNodeId ELSE 0

\* C11: the output vector of the instance equals, position by position over
\* outputNodeIds, the first output of each designated output node in a
\* standalone evaluation of the definition with its designated INPUT nodes
\* holding the vector the instance's input pins carry; an instance of a
\* definition made of one two-input AND outputs true only when both instance
\* inputs are true.
C11_InstanceEqualsStandalone ==
    InstanceEvaluated =>
        LET D == modules[1]
            standalone == evaluateCircuit(Holding(D, InstanceInputs), D.connections, modules)
        IN /\ nodeOutputs[3] =
                 [j \in DOMAIN D.outputNodeIds |-> FirstOutput(standalone, D.outputNodeIds[j])]
           /\ (DefGate = "AND" /\ ~DefLoopBack) =>
                 nodeOutputs[3][1] = (Arriving(3, 0) /\ Arriving(3, 1))

\* C11 witness: an instance of the AND definition with both pins carrying
\* true, the stored INPUTs holding false
C11_Witness ==
    /\ InstanceEvaluated
    /\ DefGate = "AND" /\ ~DefLoopBack
    /\ \A p \in 1..2 : modules[1].nodes[p].inputValue = <<FALSE>>
    /\ Arriving(3, 0) /\ Arriving(3, 1)
    /\ nodeOutputs[3][1] = TRUE

\* The value the instance's pins carry for the definition's INPUT node id
CarriedFor(id) ==
    LET k == CHOOSE k \in DOMAIN modules[1].inputNodeIds : modules[1].inputNodeIds[k] = id
    IN Arriving(3, k - 1)

\* The definition in the table with its INPUT nodes holding h
Reheld(h) ==
    [modules[1] EXCEPT !.nodes =
        [p \in DOMAIN modules[1].nodes |->
            IF modules[1].nodes[p].type = "INPUT"
            THEN [modules[1].nodes[p] EXCEPT !.inputValue = <<h[modules[1].nodes[p].id]>>]
            ELSE modules[1].nodes[p]]]

\* C12: the INPUT listed at position k of inputNodeIds takes the value at the
\* instance's pin k (false when the pin is unconnected), so the outputs are
\* those of the gate and of the tap applied to the pins' values, whatever the
\* definition's INPUTs hold; output j is the first output of outputNodeIds[j],
\* and false when that node has no entry in the internal result (here O4 behind
\* the gate's feedback loop).
C12_PinsReplaceHeldValues ==
    InstanceEvaluated =>
        /\ nodeOutputs[3] =
              << /\ ~DefLoopBack
                 /\ IF DefGate = "AND" THEN CarriedFor(1) /\ CarriedFor(2)
                                       ELSE CarriedFor(1) \/ CarriedFor(2),
                 DefTap # 0 /\ CarriedFor(DefTap) >>
        /\ \A h \in [1..2 -> BOOLEAN] :
              evaluateCircuit(nodes, connections, <<Reheld(h)>>)[3] = nodeOutputs[3]

\* C12 witness: INPUT 2 is listed first and holds false, pin 0 carries true and
\* pin 1 is unconnected, O5 taps INPUT 2 and O4 is behind the feedback loop
C12_Witness ==
    /\ InstanceEvaluated
    /\ modules[1].inputNodeIds = <<2, 1>>
    /\ modules[1].nodes[1].inputValue = <<FALSE>>
    /\ Arriving(3, 0) /\ Drivers(3, 1) = {}
    /\ DefTap = 2 /\ DefLoopBack
    /\ nodeOutputs[3] = <<FALSE, TRUE>>

\* A definition with every internal node id n replaced by n + MaxNodes + 5, an
\* id no node of the calling scope has
FreshId(n) == n + MaxNodes + 5

WithFreshIds(D) ==
    [D EXCEPT
        !.nodes = [p \in DOMAIN D.nodes |-> [D.nodes[p] EXCEPT !.id = FreshId(@)]],
        !.connections = [j \in DOMAIN D.connections |->
                            [D.connections[j] EXCEPT !.fromNodeId = FreshId(@),
                                                     !.toNodeId = FreshId(@)]],
        !.inputNodeIds = [k \in DOMAIN D.inputNodeIds |-> FreshId(D.inputNodeIds[k])],
        !.outputNodeIds = [k \in DOMAIN D.outputNodeIds |-> FreshId(D.outputNodeIds[k])]]

\* C21: the keys of the mapping evaluateCircuit returns are ids of the node
\* list it was given, and with a definition whose internal ids coincide with
\* ids of the calling scope the mapping is the one returned when the internal
\* ids are all fresh.
C21_InternalResultsNotMerged ==
    Evaluated =>
        /\ DOMAIN nodeOutputs \subseteq NodeIds(nodes)
        /\ nodeOutputs = evaluateCircuit(nodes, connections, <<WithFreshIds(modules[1])>>)

\* C21 witness: the outer INPUT 1 holds true while the instance's pin for the
\* definition's INPUT 1 carries false, and the instance is evaluated
C21_Witness ==
    /\ InstanceEvaluated
    /\ NodeIds(modules[1].nodes) \cap NodeIds(nodes) = {1, 2, 3}
    /\ nodes[1].inputValue = <<TRUE>>
    /\ ~CarriedFor(1) /\ CarriedFor(2)
    /\ nodeOutputs[1] = <<TRUE>>
    /\ DefGate = "OR" /\ nodeOutputs[3][1] = TRUE

(***************************************************************************)
(* SpecKinds: evaluateCircuit and detectCycleConnections applied to scopes *)
(* that hold pin bars, a node of a kind the switch does not know, and an   *)
(* instance whose definition is not in the table.  Nothing restricts the   *)
(* wires: they may end at a node without input pins, start at a pin the    *)
(* source does not have, form cycles, or name node 3 when the list holds   *)
(* only nodes 1 and 2.                                                     *)
(***************************************************************************)
KindConns == 2

\* CircuitContext.tsx 61-62: DELETE_MODULE
DeleteModule(ms, id) ==
    LET keep(m) == m.id # id IN SelectSeq(ms, keep)

\* GateNode.tsx 229: a pin bar switched to 'input' mode, with its toggle vector
PinBarSource(id, count, vals) ==
    [NewNode(id, "PINBAR") EXCEPT !.pinBarMode = "input", !.inputCount = 0,
                                  !.outputCount = count, !.pinBarValues = vals]

\* GateNode.tsx 231: a pin bar switched to 'output' mode
PinBarSink(id, count) ==
    [NewNode(id, "PINBAR") EXCEPT !.pinBarMode = "output", !.inputCount = count,
                                  !.outputCount = 0, !.pinBarValues = <<>>]

\* types/circuit.ts 52: the BUS kind of the tool palette, which the switch of
\* evaluateCircuit has no case for
PinSlot(id) ==
    [NewNode(id, "PINSLOT") EXCEPT !.inputCount = 4, !.outputCount = 4]

\* The definition the instance of these scopes was placed from (two inputs,
\* two outputs), and the table after it has been deleted
PlacedDef == CreateModule(1, GateCanvasNodes("OR", [i \in 1..2 |-> TRUE], FALSE),
                             GateCanvasConns(FALSE, 1))

TableAfterDelete == DeleteModule(<<PlacedDef, ModuleBody(2, 0, FALSE)>>, 1)

\* Node 1: a source
FirstChoices ==
    {WithInputValue(NewNode(1, "INPUT"), TRUE),
     [NewNode(1, "PINBAR") EXCEPT !.outputCount = 2],
     PinBarSource(1, 2, <<TRUE>>),
     PinBarSource(1, 2, <<TRUE, FALSE>>),
     PinBarSource(1, 2, <<FALSE, TRUE>>)}

\* Node 2: a gate, a node of unknown kind, an instance whose moduleId is unset
\* or names the deleted definition, or a pin bar source
SecondChoices ==
    {NewNode(2, "NOT"),
     PinSlot(2),
     [ModuleNode(2, PlacedDef) EXCEPT !.moduleId = 0],
     ModuleNode(2, PlacedDef),
     PinBarSource(2, 2, <<FALSE, TRUE>>)}

\* Node 3, when listed: a pin bar sink, without or with a stale toggle vector
ThirdChoices ==
    {PinBarSink(3, 2),
     [PinBarSink(3, 2) EXCEPT !.pinBarValues = <<TRUE, TRUE>>]}

\* Lists of at most KindConns different wires among the ids 1..3
KindWires == {<<f, fp, t, tp>> : f \in 1..3, fp \in {0, 1}, t \in 1..3, tp \in {0, 1}}

KindConnLists ==
    UNION {{[i \in 1..k |-> NewConnection(i, w[i][1], w[i][2], w[i][3], w[i][4])] :
                w \in {v \in [1..k -> KindWires] :
                          \A i \in 1..k : \A j \in 1..k : i < j => WireKey(v[i]) < WireKey(v[j])}}
           : k \in 0..KindConns}

InitKinds ==
    /\ \E a \in FirstChoices, b \in SecondChoices :
          \/ nodes = <<a, b>>
          \/ \E c \in ThirdChoices : nodes = <<a, b, c>>
    /\ connections \in KindConnLists
    /\ modules = TableAfterDelete
    /\ op = NoOp
    /\ cycleConnectionIds = <<>>
    /\ wccResult = FALSE
    /\ nodeOutputs = <<>>
    /\ pc = "idle"
    /\ loop = <<>>
    /\ stack = <<>>
    /\ CanvasAtRest

NextKinds == Evaluate \/ Detect

SpecKinds == InitKinds /\ [][NextKinds]_vars

\* All-false vector of length n
AllFalse(n) == [j \in 1..n |-> FALSE]

\* The instances whose moduleId matches no definition of the table
Orphans ==
    {p \in DOMAIN nodes : nodes[p].type = "MODULE" /\ FindModule(modules, nodes[p].moduleId) = 0}

\* C13: for a MODULE node whose moduleId matches no definition of the table
\* (never set, or deleted), evaluateCircuit returns a vector of exactly
\* outputCount values, all false.
C13_MissingModuleAllFalse ==
    Evaluated =>
        \A p \in Orphans :
            /\ nodes[p].id \in DOMAIN nodeOutputs
            /\ nodeOutputs[nodes[p].id] = AllFalse(nodes[p].outputCount)

\* What holds of the code: the instance gets that vector whenever it gets one
EvaluatedMissingModuleAllFalse ==
    Evaluated =>
        \A p \in Orphans :
            nodes[p].id \in DOMAIN nodeOutputs
                => nodeOutputs[nodes[p].id] = AllFalse(nodes[p].outputCount)

IsBarSource(n) == n.type = "PINBAR" /\ n.pinBarMode \in {"input", "undefined"}

IsBarSink(n) == n.type = "PINBAR" /\ n.pinBarMode = "output"

\* The vector of a pin bar source: one entry per output pin, the toggle
\* vector's entry or false where it has none
ToggleVector(n) == [j \in 1..n.outputCount |-> j \in DOMAIN n.pinBarValues /\ n.pinBarValues[j]]

\* C15: a PINBAR node in source mode ('input' or unset) outputs exactly
\* outputCount values, entry i being pinBarValues[i] or false where there is
\* none, whatever connections end at it.
C15_BarSourceShowsToggles ==
    Evaluated =>
        \A p \in DOMAIN nodes :
            IsBarSource(nodes[p]) =>
                /\ nodes[p].id \in DOMAIN nodeOutputs
                /\ nodeOutputs[nodes[p].id] = ToggleVector(nodes[p])

\* What holds of the code: a pin bar source that gets a vector gets its toggles
EvaluatedBarSourceShowsToggles ==
    Evaluated =>
        \A p \in DOMAIN nodes :
            (IsBarSource(nodes[p]) /\ nodes[p].id \in DOMAIN nodeOutputs)
                => nodeOutputs[nodes[p].id] = ToggleVector(nodes[p])

\* The vector arriving at the input pins of a node
ArrivingVector(n) == [j \in 1..n.inputCount |-> Arriving(n.id, j - 1)]

\* C16: a PINBAR node in sink mode ('output') reports exactly inputCount
\* values, entry i being the value arriving at input pin i (false when the pin
\* is unconnected), whatever pinBarValues holds.
C16_BarSinkShowsInputs ==
    Evaluated =>
        \A p \in DOMAIN nodes :
            IsBarSink(nodes[p]) =>
                /\ nodes[p].id \in DOMAIN nodeOutputs
                /\ nodeOutputs[nodes[p].id] = ArrivingVector(nodes[p])

\* What holds of the code: a pin bar sink that gets a vector gets its inputs
EvaluatedBarSinkShowsInputs ==
    Evaluated =>
        \A p \in DOMAIN nodes :
            (IsBarSink(nodes[p]) /\ nodes[p].id \in DOMAIN nodeOutputs)
                => nodeOutputs[nodes[p].id] = ArrivingVector(nodes[p])

\* A connection with an endpoint that is not in the node list
Dangling(c) == c.fromNodeId \notin NodeIds(nodes) \/ c.toNodeId \notin NodeIds(nodes)

\* The connection list without its last connection
Front(conns) == SubSeq(conns, 1, Len(conns) - 1)

\* C17: when the connection added last to a single-driver scope is dangling,
\* evaluateCircuit and detectCycleConnections return what they return without
\* it; no dangling connection's id is ever reported as cyclic.
C17_DanglingIgnored ==
    /\ Detected =>
          \A i \in DOMAIN connections :
              Dangling(connections[i]) => connections[i].id \notin Range(cycleConnectionIds)
    /\ (/\ connections # <<>>
        /\ Dangling(connections[Len(connections)])
        /\ SingleDriver(Front(connections))) =>
          /\ Evaluated => nodeOutputs = evaluateCircuit(nodes, Front(connections), modules)
          /\ Detected => cycleConnectionIds = detectCycleConnections(nodes, Front(connections))

\* C17 witness: a wire from the missing node 3 into a pin of node 2 was added
\* to a scope where node 2 feeds back into itself; the detector reports the
\* feedback wire only
C17_Witness ==
    /\ Detected
    /\ Len(nodes) = 2 /\ Len(connections) = 2
    /\ connections[1].fromNodeId = 2 /\ connections[1].toNodeId = 2
    /\ connections[2].fromNodeId = 3 /\ connections[2].toNodeId = 2
    /\ cycleConnectionIds = <<1>>

KnownKinds == {"AND", "OR", "NOT", "INPUT", "OUTPUT", "LED", "PINBAR", "MODULE"}

\* The input pins of an evaluated node whose first listed wire starts at a pin
\* beyond the output vector of its (evaluated) source
BeyondPins(n) ==
    {i \in 0..(n.inputCount - 1) :
        /\ Drivers(n.id, i) # {}
        /\ LET c == connections[CHOOSE j \in Drivers(n.id, i) : \A h \in Drivers(n.id, i) : j <= h]
           IN /\ c.fromNodeId \in DOMAIN nodeOutputs
              /\ c.fromPinIndex >= Len(nodeOutputs[c.fromNodeId])}

\* A wire from beyond the source's vector delivers false: a NOT fed by one
\* outputs [true], a pin bar sink shows false at that pin
BeyondDeliversFalse ==
    \A p \in DOMAIN nodes :
        nodes[p].id \in DOMAIN nodeOutputs =>
            /\ (nodes[p].type = "NOT" /\ 0 \in BeyondPins(nodes[p]))
                  => nodeOutputs[nodes[p].id] = <<TRUE>>
            /\ IsBarSink(nodes[p]) =>
                  \A i \in BeyondPins(nodes[p]) : nodeOutputs[nodes[p].id][i + 1] = FALSE

\* C18: a node whose kind is none of the kinds the switch knows gets the
\* output [false], and a connection whose fromPinIndex is beyond the source's
\* output vector delivers false to its destination pin.
C18_MalformedDefaultsFalse ==
    Evaluated =>
        /\ \A p \in DOMAIN nodes :
              nodes[p].type \notin KnownKinds =>
                  /\ nodes[p].id \in DOMAIN nodeOutputs
                  /\ nodeOutputs[nodes[p].id] = <<FALSE>>
        /\ BeyondDeliversFalse

\* What holds of the code: a node of unknown kind that gets a vector gets
\* [false], and a wire from beyond the source's vector delivers false
EvaluatedMalformedDefaultsFalse ==
    Evaluated =>
        /\ \A p \in DOMAIN nodes :
              (nodes[p].type \notin KnownKinds /\ nodes[p].id \in DOMAIN nodeOutputs)
                  => nodeOutputs[nodes[p].id] = <<FALSE>>
        /\ BeyondDeliversFalse

(***************************************************************************)
(* The reducer of the circuit state (CircuitContext.tsx 30-70).            *)
(***************************************************************************)

\* ADD_NODE, line 33
AddNode(ns, node) == Append(ns, node)

\* REMOVE_NODE, line 39: the node list without the node
RemoveNodeNodes(ns, id) ==
    LET keep(n) == n.id # id IN SelectSeq(ns, keep)

\* REMOVE_NODE with only the connections leaving the node filtered out
RemoveNodeConnectionsFromOnly(conns, id) ==
    LET keep(c) == c.fromNodeId # id IN SelectSeq(conns, keep)

\* REMOVE_NODE, line 40: the connection list without the node's connections
RemoveNodeConnections(conns, id) ==
    LET keep(c) == c.fromNodeId # id /\ c.toNodeId # id IN SelectSeq(conns, keep)

\* ADD_CONNECTION without the test of the destination pin
AddConnectionUnchecked(conns, connection) == Append(conns, connection)

\* ADD_CONNECTION, lines 42-48
AddConnection(conns, connection) ==
    LET exists == \E i \in DOMAIN conns :
                      /\ conns[i].toNodeId = connection.toNodeId
                      /\ conns[i].toPinIndex = connection.toPinIndex
    IN IF exists THEN conns ELSE Append(conns, connection)

\* REMOVE_CONNECTION, line 50
RemoveConnection(conns, id) ==
    LET keep(c) == c.id # id IN SelectSeq(conns, keep)

\* TOGGLE_INPUT, line 52: inputValue: !n.inputValue (an undefined value
\* becomes true)
ToggleInput(ns, id) ==
    [p \in DOMAIN ns |->
        IF ns[p].id = id
        THEN [ns[p] EXCEPT !.inputValue = <<~(ns[p].inputValue = <<TRUE>>)>>]
        ELSE ns[p]]

(***************************************************************************)
(* SpecCanvas: the Canvas' handlers dispatching to the reducer, from the   *)
(* empty canvas.  The provider recomputes nodeOutputs from the state each  *)
(* dispatch leaves.  op records the handler that ran last.                 *)
(***************************************************************************)
MaxCanvasNodes == 3
MaxCanvasConns == 2

CanvasTools == {"INPUT", "AND"}

InitCanvas ==
    /\ nodes = <<>>
    /\ connections = <<>>
    /\ modules = <<>>
    /\ op = NoOp
    /\ cycleConnectionIds = <<>>
    /\ wccResult = FALSE
    /\ nodeOutputs = evaluateCircuit(<<>>, <<>>, <<>>)
    /\ pc = "idle"
    /\ loop = <<>>
    /\ stack = <<>>
    /\ CanvasAtRest

\* CircuitContext.tsx 91-94: useMemo(() => evaluateCircuit(...)) over the
\* state the dispatch leaves
Rendered == nodeOutputs' = evaluateCircuit(nodes', connections', modules')

\* handlePointerDown, lines 151-155: a click on empty canvas while drawing
CancelDrawing ==
    /\ connectingFrom # NoDrawing
    /\ connectingFrom' = NoDrawing
    /\ op' = [name |-> "cancel", from |-> 0, to |-> 0]
    /\ UNCHANGED <<nodes, connections, modules, uuid>>
    /\ Rendered
    /\ UNCHANGED <<cycleConnectionIds, wccResult, pc, loop, stack>>

\* handlePointerDown, lines 157-177, with a tool of the side menu selected
PlaceNode ==
    /\ connectingFrom = NoDrawing
    /\ uuid.node <= MaxCanvasNodes
    /\ \E tool \in CanvasTools :
          /\ nodes' = AddNode(nodes, NewNode(uuid.node, tool))
          /\ op' = [name |-> "ADD_NODE", from |-> uuid.node, to |-> 0]
    /\ uuid' = [uuid EXCEPT !.node = @ + 1]
    /\ UNCHANGED <<connections, modules, connectingFrom>>
    /\ Rendered
    /\ UNCHANGED <<cycleConnectionIds, wccResult, pc, loop, stack>>

\* The pins GateNode renders (GateNode.tsx 149)
Pins ==
    {<<nodes[p].id, i, "input">> : p \in DOMAIN nodes, i \in 0..1}
        \cup {<<nodes[p].id, i, "output">> : p \in DOMAIN nodes, i \in 0..1}

PinShown(pin) ==
    \E p \in DOMAIN nodes :
        /\ nodes[p].id = pin[1]
        /\ pin[2] < (IF pin[3] = "input" THEN nodes[p].inputCount ELSE nodes[p].outputCount)

\* part_004 120: the commit is dropped when wouldCreateCycle says so
CommitGuarded(conns, from, to) == ~wouldCreateCycle(conns, from, to)

\* CircuitContext.tsx 246: "Allow all connections"
CommitAlways(conns, from, to) == TRUE

\* lines 238-240: the source is the pin of type output among the pin drawing
\* started from and the clicked pin
FromData(drawing, here) ==
    IF drawing.pinType = "output"
    THEN [nodeId |-> drawing.nodeId, pinIndex |-> drawing.pinIndex]
    ELSE here

\* The destination taken to be the clicked pin whichever pin was clicked first
ToDataClicked(drawing, here) == here

\* lines 241-243: the destination is the pin of type input
ToData(drawing, here) ==
    IF drawing.pinType = "input"
    THEN [nodeId |-> drawing.nodeId, pinIndex |-> drawing.pinIndex]
    ELSE here

\* handlePinClick (CircuitContext.tsx 226-254; part_004 99-132 with the guard);
\* op records the clicked pin, whether the click was the second of two pins of
\* different types on different nodes, and whether ADD_CONNECTION was dispatched
HandlePinClick(pin, guarded) ==
        LET here      == [nodeId |-> pin[1], pinIndex |-> pin[2]]
            fromData  == FromData(connectingFrom, here)
            toData    == ToData(connectingFrom, here)
            completes == /\ connectingFrom # NoDrawing
                         /\ connectingFrom.nodeId # pin[1]
                         /\ connectingFrom.pinType # pin[3]
            dispatches ==
                /\ completes
                /\ IF guarded
                   THEN CommitGuarded(connections, fromData.nodeId, toData.nodeId)
                   ELSE CommitAlways(connections, fromData.nodeId, toData.nodeId)
        IN /\ PinShown(pin)
           /\ op' = [name |-> "pinClick", from |-> pin[1], to |-> pin[2],
                     pinType |-> pin[3], completed |-> completes,
                     dispatched |-> dispatches]
           /\ IF connectingFrom = NoDrawing
              THEN /\ connectingFrom' = [nodeId |-> pin[1], pinIndex |-> pin[2],
                                         pinType |-> pin[3]]
                   /\ UNCHANGED <<nodes, connections, modules, uuid>>
              ELSE IF connectingFrom.nodeId = pin[1]
              THEN /\ connectingFrom' = NoDrawing
                   /\ UNCHANGED <<nodes, connections, modules, uuid>>
              ELSE IF connectingFrom.pinType = pin[3]
              THEN /\ connectingFrom' = [nodeId |-> pin[1], pinIndex |-> pin[2],
                                         pinType |-> pin[3]]
                   /\ UNCHANGED <<nodes, connections, modules, uuid>>
              ELSE IF dispatches
              THEN /\ uuid.connection <= MaxCanvasConns
                   /\ connections' =
                         AddConnection(connections,
                             NewConnection(uuid.connection, fromData.nodeId,
                                           fromData.pinIndex, toData.nodeId,
                                           toData.pinIndex))
                   /\ uuid' = [uuid EXCEPT !.connection = @ + 1]
                   /\ connectingFrom' = NoDrawing
                   /\ UNCHANGED <<nodes, modules>>
              ELSE /\ connectingFrom' = NoDrawing
                   /\ UNCHANGED <<nodes, connections, modules, uuid>>
           /\ Rendered
           /\ UNCHANGED <<cycleConnectionIds, wccResult, pc, loop, stack>>

\* handlePinClick of the current Canvas (CircuitContext.tsx 226-254)
PinClick == \E pin \in Pins : HandlePinClick(pin, FALSE)

\* GateNode's delete button (CircuitContext.tsx 308): REMOVE_NODE
DeleteNode ==
    /\ \E p \in DOMAIN nodes :
          /\ nodes' = RemoveNodeNodes(nodes, nodes[p].id)
          /\ connections' = RemoveNodeConnections(connections, nodes[p].id)
          /\ op' = [name |-> "REMOVE_NODE", from |-> nodes[p].id, to |-> 0]
    /\ UNCHANGED <<modules, connectingFrom, uuid>>
    /\ Rendered
    /\ UNCHANGED <<cycleConnectionIds, wccResult, pc, loop, stack>>

\* WireLayer's double click (CircuitContext.tsx 296): REMOVE_CONNECTION
DeleteConnection ==
    /\ \E j \in DOMAIN connections :
          /\ connections' = RemoveConnection(connections, connections[j].id)
          /\ op' = [name |-> "REMOVE_CONNECTION", from |-> connections[j].id, to |-> 0]
    /\ UNCHANGED <<nodes, modules, connectingFrom, uuid>>
    /\ Rendered
    /\ UNCHANGED <<cycleConnectionIds, wccResult, pc, loop, stack>>

\* GateNode.tsx 66-69: a click on an INPUT node dispatches TOGGLE_INPUT
Toggle ==
    /\ \E p \in DOMAIN nodes :
          /\ nodes[p].type = "INPUT"
          /\ nodes' = ToggleInput(nodes, nodes[p].id)
          /\ op' = [name |-> "TOGGLE_INPUT", from |-> nodes[p].id, to |-> 0]
    /\ UNCHANGED <<connections, modules, connectingFrom, uuid>>
    /\ Rendered
    /\ UNCHANGED <<cycleConnectionIds, wccResult, pc, loop, stack>>

\* clearCanvas (CircuitContext.tsx 264-268): CLEAR_CANVAS, line 66
ClearCanvas ==
    /\ nodes' = <<>>
    /\ connections' = <<>>
    /\ op' = [name |-> "CLEAR_CANVAS", from |-> 0, to |-> 0]
    /\ UNCHANGED <<modules, connectingFrom, uuid>>
    /\ Rendered
    /\ UNCHANGED <<cycleConnectionIds, wccResult, pc, loop, stack>>

NextCanvas ==
    \/ CancelDrawing \/ PlaceNode \/ PinClick
    \/ DeleteNode \/ DeleteConnection \/ Toggle \/ ClearCanvas

SpecCanvas == InitCanvas /\ [][NextCanvas]_vars

(***************************************************************************)
(* SpecGuarded: the same canvas with the handlePinClick of part_004, which *)
(* asks wouldCreateCycle before it dispatches ADD_CONNECTION.              *)
(***************************************************************************)
PinClickGuarded == \E pin \in Pins : HandlePinClick(pin, TRUE)

NextGuarded ==
    \/ CancelDrawing \/ PlaceNode \/ PinClickGuarded
    \/ DeleteNode \/ DeleteConnection \/ Toggle \/ ClearCanvas

SpecGuarded == InitCanvas /\ [][NextGuarded]_vars

\* The last handler was a pin click that dispatched ADD_CONNECTION
Dispatched == op.name = "pinClick" /\ op.dispatched

\* The destination pin of the connection a completing click dispatches: the
\* input pin among the pin drawing started from and the clicked pin
DispatchedTo ==
    IF connectingFrom.pinType = "input"
    THEN <<connectingFrom.nodeId, connectingFrom.pinIndex>>
    ELSE <<op'.from, op'.to>>

DispatchedFrom ==
    IF connectingFrom.pinType = "output"
    THEN <<connectingFrom.nodeId, connectingFrom.pinIndex>>
    ELSE <<op'.from, op'.to>>

\* C23: from the empty state no two connections ever end at the same input
\* pin, and an ADD_CONNECTION whose destination pin already has a connection
\* leaves the state as it was.
C23_SingleDriverKept ==
    /\ []SingleDriver(connections)
    /\ [][(Dispatched' /\ Drivers(DispatchedTo[1], DispatchedTo[2]) # {})
             => UNCHANGED <<nodes, connections, modules>>]_vars

\* C23 witness: the connection dispatched last is not in the list, its
\* destination pin being held by an earlier connection
C23_Witness ==
    /\ Dispatched
    /\ \A j \in DOMAIN connections : connections[j].id # uuid.connection - 1
    /\ connections # <<>>
    /\ SingleDriver(connections)

\* Every connection has both endpoints in the node list
NoDangling == ValidConns(nodes, connections) = DOMAIN connections

\* The step dispatches an ADD_CONNECTION naming a node that is not in the list
DispatchedDangling ==
    /\ Dispatched'
    /\ ~({DispatchedFrom[1], DispatchedTo[1]} \subseteq NodeIds(nodes))

\* C24: REMOVE_NODE(id) removes the node and every connection from or to id
\* and leaves the other nodes, the other connections and the module library
\* as they were; so, as long as every ADD_CONNECTION names two nodes of the
\* list, every connection has both endpoints in the list.
C24_RemoveNodeTakesItsWires ==
    [][/\ op'.name = "REMOVE_NODE" =>
             LET id == op'.from
                 otherNode(n) == n.id # id
                 otherConn(c) == c.fromNodeId # id /\ c.toNodeId # id
             IN /\ id \in NodeIds(nodes)
                /\ nodes' = SelectSeq(nodes, otherNode)
                /\ connections' = SelectSeq(connections, otherConn)
                /\ modules' = modules
                /\ \A j \in DOMAIN connections' :
                      connections'[j].fromNodeId # id /\ connections'[j].toNodeId # id
       /\ (NoDangling /\ ~DispatchedDangling) => NoDangling'
      ]_vars

\* C24 witness: a node has been removed with a wire of its own, and a wire
\* between the remaining two nodes is still there
C24_Witness ==
    /\ op.name = "REMOVE_NODE"
    /\ Len(nodes) = 2 /\ uuid.node = 4
    /\ Len(connections) = 1 /\ uuid.connection = 3
    /\ NoDangling

\* C25: after a state change that leaves the cycle detector's result
\* non-empty, the node outputs exposed to the UI are those exposed before it
\* (the last computed for a cycle-free state); after one that leaves the
\* result empty they are evaluateCircuit's for the new state.
C25_FrozenWhileCyclic ==
    [][IF detectCycleConnections(nodes', connections') # <<>>
       THEN nodeOutputs' = nodeOutputs
       ELSE nodeOutputs' = evaluateCircuit(nodes', connections', modules')
      ]_vars

\* The exposed outputs are recomputed on every state change, cycle or not
RecomputedOnEveryChange ==
    nodeOutputs = evaluateCircuit(nodes, connections, modules)

\* C26: with wire commits guarded by wouldCreateCycle, the connection graph
\* is acyclic in every state reachable from the empty canvas, and the mapping
\* of evaluateCircuit has an entry for every node.
C26_GuardedCanvasAcyclic ==
    /\ ~HasCycle(ScopeEdges)
    /\ nodeOutputs = evaluateCircuit(nodes, connections, modules)
    /\ DOMAIN nodeOutputs = NodeIds(nodes)

\* C26 witness: with a chain over three nodes in place, the guard has just
\* refused a wire, and every node has an entry
C26_Witness ==
    /\ op.name = "pinClick" /\ op.completed /\ ~op.dispatched
    /\ Len(nodes) = 3 /\ Len(connections) = 2
    /\ \E i \in DOMAIN connections, j \in DOMAIN connections :
          connections[i].toNodeId = connections[j].fromNodeId
    /\ DOMAIN nodeOutputs = NodeIds(nodes)

\* The pin clicked in the step, as connectingFrom would hold it
Clicked == [nodeId |-> op'.from, pinIndex |-> op'.to, pinType |-> op'.pinType]

\* C29: every connection handlePinClick commits runs from the pin of type
\* output to the pin of type input of the two clicked pins, which are on
\* different nodes, whichever was clicked first; a second click on a pin of the
\* node drawing started from cancels without adding a connection; a second
\* click on a pin of the same type on another node restarts drawing from that
\* pin; a completed or cancelled gesture leaves no drawing in progress.
C29_WireDrawingProtocol ==
    [][/\ op'.name = "pinClick" =>
             /\ connections' # connections =>
                   LET new == connections'[Len(connections')]
                       out == IF connectingFrom.pinType = "output" THEN connectingFrom ELSE Clicked
                       in  == IF connectingFrom.pinType = "input" THEN connectingFrom ELSE Clicked
                   IN /\ connectingFrom # NoDrawing
                      /\ out.pinType = "output" /\ in.pinType = "input"
                      /\ connections' = Append(connections, new)
                      /\ new.fromNodeId = out.nodeId /\ new.fromPinIndex = out.pinIndex
                      /\ new.toNodeId = in.nodeId /\ new.toPinIndex = in.pinIndex
                      /\ new.fromNodeId # new.toNodeId
             /\ (connectingFrom # NoDrawing /\ connectingFrom.nodeId = Clicked.nodeId) =>
                   connectingFrom' = NoDrawing /\ connections' = connections
             /\ (/\ connectingFrom # NoDrawing
                 /\ connectingFrom.nodeId # Clicked.nodeId
                 /\ connectingFrom.pinType = Clicked.pinType) =>
                   connectingFrom' = Clicked /\ connections' = connections
             /\ op'.completed => connectingFrom' = NoDrawing
       /\ op'.name = "cancel" => connectingFrom' = NoDrawing /\ connections' = connections
      ]_vars

\* C29 witness: a wire drawn from an input pin to an output pin has been
\* committed, running from the output pin clicked second
C29_Witness ==
    /\ Dispatched /\ op.pinType = "output"
    /\ connectingFrom = NoDrawing
    /\ \E j \in DOMAIN connections :
          /\ connections[j].id = uuid.connection - 1
          /\ connections[j].fromNodeId = op.from
          /\ connections[j].toNodeId # op.from
          /\ connections[j].toPinIndex = 1

(***************************************************************************)
(* SpecLibrary: the reducer's actions on the canvas together with          *)
(* createModule + CREATE_MODULE and DELETE_MODULE, from the empty canvas   *)
(* and the empty library (no LOAD_MODULES).  The payloads are those the    *)
(* Canvas and the side menu build; nodeOutputs is not followed here.       *)
(***************************************************************************)
LibNodes == 3
LibConns == 2
LibModules == 2

\* SideMenu.tsx 31-34: createModule returns early without an INPUT or
\* without an OUTPUT on the canvas; this variant lets every canvas through
CanCreateModuleAlways(ns) == TRUE

\* SideMenu.tsx 27-34
CanCreateModule(ns) ==
    /\ \E p \in DOMAIN ns : ns[p].type = "INPUT"
    /\ \E p \in DOMAIN ns : ns[p].type = "OUTPUT"

\* The definition's id taken from its position in the library, so that the
\* id of a deleted definition is given out again
ModuleIdByPosition(ms, fresh) == Len(ms) + 1

\* SideMenu.tsx 39: id: crypto.randomUUID()
ModuleId(ms, fresh) == fresh

LibAddNode ==
    /\ uuid.node <= LibNodes
    /\ \E tool \in {"INPUT", "OUTPUT", "NOT"} :
          nodes' = AddNode(nodes, NewNode(uuid.node, tool))
    /\ uuid' = [uuid EXCEPT !.node = @ + 1]
    /\ op' = [name |-> "ADD_NODE", from |-> 0, to |-> 0]
    /\ UNCHANGED <<connections, modules, connectingFrom>>
    /\ UNCHANGED <<cycleConnectionIds, wccResult, nodeOutputs, pc, loop, stack>>

\* CircuitContext.tsx 164-167: the module tool places an instance of a
\* definition of the library
LibAddInstance ==
    /\ uuid.node <= LibNodes
    /\ \E k \in DOMAIN modules :
          nodes' = AddNode(nodes, ModuleNode(uuid.node, modules[k]))
    /\ uuid' = [uuid EXCEPT !.node = @ + 1]
    /\ op' = [name |-> "ADD_NODE", from |-> 0, to |-> 0]
    /\ UNCHANGED <<connections, modules, connectingFrom>>
    /\ UNCHANGED <<cycleConnectionIds, wccResult, nodeOutputs, pc, loop, stack>>

\* MOVE_NODE, line 35: x and y, which the model of a node leaves out
LibMoveNode ==
    /\ nodes # <<>>
    /\ op' = [name |-> "MOVE_NODE", from |-> 0, to |-> 0]
    /\ UNCHANGED <<nodes, connections, modules, connectingFrom, uuid>>
    /\ UNCHANGED <<cycleConnectionIds, wccResult, nodeOutputs, pc, loop, stack>>

LibRemoveNode ==
    /\ \E p \in DOMAIN nodes :
          /\ nodes' = RemoveNodeNodes(nodes, nodes[p].id)
          /\ connections' = RemoveNodeConnections(connections, nodes[p].id)
    /\ op' = [name |-> "REMOVE_NODE", from |-> 0, to |-> 0]
    /\ UNCHANGED <<modules, connectingFrom, uuid>>
    /\ UNCHANGED <<cycleConnectionIds, wccResult, nodeOutputs, pc, loop, stack>>

\* ADD_CONNECTION with a connection handlePinClick builds: from the first
\* output pin of a node to an input pin of another node
LibAddConnection ==
    /\ uuid.connection <= LibConns
    /\ \E p \in DOMAIN nodes, q \in DOMAIN nodes :
          /\ p # q
          /\ nodes[p].outputCount >= 1
          /\ \E i \in 0..(nodes[q].inputCount - 1) :
                connections' = AddConnection(connections,
                    NewConnection(uuid.connection, nodes[p].id, 0, nodes[q].id, i))
    /\ uuid' = [uuid EXCEPT !.connection = @ + 1]
    /\ op' = [name |-> "ADD_CONNECTION", from |-> 0, to |-> 0]
    /\ UNCHANGED <<nodes, modules, connectingFrom>>
    /\ UNCHANGED <<cycleConnectionIds, wccResult, nodeOutputs, pc, loop, stack>>

LibRemoveConnection ==
    /\ \E j \in DOMAIN connections :
          connections' = RemoveConnection(connections, connections[j].id)
    /\ op' = [name |-> "REMOVE_CONNECTION", from |-> 0, to |-> 0]
    /\ UNCHANGED <<nodes, modules, connectingFrom, uuid>>
    /\ UNCHANGED <<cycleConnectionIds, wccResult, nodeOutputs, pc, loop, stack>>

LibToggleInput ==
    /\ \E p \in DOMAIN nodes :
          /\ nodes[p].type = "INPUT"
          /\ nodes' = ToggleInput(nodes, nodes[p].id)
    /\ op' = [name |-> "TOGGLE_INPUT", from |-> 0, to |-> 0]
    /\ UNCHANGED <<connections, modules, connectingFrom, uuid>>
    /\ UNCHANGED <<cycleConnectionIds, wccResult, nodeOutputs, pc, loop, stack>>

LibClearCanvas ==
    /\ nodes' = <<>>
    /\ connections' = <<>>
    /\ op' = [name |-> "CLEAR_CANVAS", from |-> 0, to |-> 0]
    /\ UNCHANGED <<modules, connectingFrom, uuid>>
    /\ UNCHANGED <<cycleConnectionIds, wccResult, nodeOutputs, pc, loop, stack>>

\* SideMenu.tsx 26-52 and CREATE_MODULE, line 60
LibCreateModule ==
    /\ uuid.module <= LibModules
    /\ CanCreateModule(nodes)
    /\ modules' = Append(modules,
                         CreateModule(ModuleId(modules, uuid.module), nodes, connections))
    /\ uuid' = [uuid EXCEPT !.module = @ + 1]
    /\ op' = [name |-> "CREATE_MODULE", from |-> 0, to |-> 0]
    /\ UNCHANGED <<nodes, connections, connectingFrom>>
    /\ UNCHANGED <<cycleConnectionIds, wccResult, nodeOutputs, pc, loop, stack>>

\* SideMenu.tsx 54-58 and DELETE_MODULE, line 62
LibDeleteModule ==
    /\ \E k \in DOMAIN modules : modules' = DeleteModule(modules, modules[k].id)
    /\ op' = [name |-> "DELETE_MODULE", from |-> 0, to |-> 0]
    /\ UNCHANGED <<nodes, connections, connectingFrom, uuid>>
    /\ UNCHANGED <<cycleConnectionIds, wccResult, nodeOutputs, pc, loop, stack>>

InitLibrary ==
    /\ nodes = <<>>
    /\ connections = <<>>
    /\ modules = <<>>
    /\ op = NoOp
    /\ cycleConnectionIds = <<>>
    /\ wccResult = FALSE
    /\ nodeOutputs = <<>>
    /\ pc = "idle"
    /\ loop = <<>>
    /\ stack = <<>>
    /\ CanvasAtRest

NextLibrary ==
    \/ LibAddNode \/ LibAddInstance \/ LibMoveNode \/ LibRemoveNode
    \/ LibAddConnection \/ LibRemoveConnection \/ LibToggleInput \/ LibClearCanvas
    \/ LibCreateModule \/ LibDeleteModule

SpecLibrary == InitLibrary /\ [][NextLibrary]_vars

\* C27: in every state reachable from the empty library without
\* LOAD_MODULES, the ids of the definitions differ, a definition contains
\* instances only of definitions created before it, no definition references
\* itself directly or transitively, and so evaluateCircuit returns.
C27_ModuleReferencesAcyclic ==
    /\ \A j \in DOMAIN modules : \A k \in DOMAIN modules :
          modules[j].id = modules[k].id => j = k
    /\ \A k \in DOMAIN modules : \A p \in DOMAIN modules[k].nodes :
          modules[k].nodes[p].type = "MODULE" =>
              modules[k].nodes[p].moduleId < modules[k].id
    /\ SelfReferencing(modules) = {}
    /\ DOMAIN evaluateCircuit(nodes, connections, modules) \subseteq NodeIds(nodes)

\* C27 witness: the second definition holds an instance of the first, taken
\* from the canvas, where the instance is evaluated
C27_Witness ==
    /\ Len(modules) = 2
    /\ \E p \in DOMAIN modules[2].nodes :
          /\ modules[2].nodes[p].type = "MODULE"
          /\ modules[2].nodes[p].moduleId = modules[1].id
    /\ \E q \in DOMAIN nodes :
          /\ nodes[q].type = "MODULE" /\ nodes[q].moduleId = modules[1].id
          /\ nodes[q].id \in DOMAIN evaluateCircuit(nodes, connections, modules)

CanvasActions ==
    {"ADD_NODE", "MOVE_NODE", "REMOVE_NODE", "ADD_CONNECTION", "REMOVE_CONNECTION",
     "TOGGLE_INPUT", "CLEAR_CANVAS"}

\* The ids of the nodes of a kind, in list order
IdsOfKind(ns, kind) ==
    LET is(n) == n.type = kind
        sel == SelectSeq(ns, is)
    IN [k \in DOMAIN sel |-> sel[k].id]

\* C28: every definition has at least one designated input and output, which
\* are its INPUT and OUTPUT nodes, and its counts are their numbers;
\* CREATE_MODULE stores the canvas as it is; and no canvas action changes a
\* definition's nodes, connections or designated ids (the library an instance
\* is evaluated with, and so its outputs for given instance inputs).
C28_DefinitionIsSnapshot ==
    /\ [](\A k \in DOMAIN modules :
            /\ modules[k].inputNodeIds = IdsOfKind(modules[k].nodes, "INPUT")
            /\ modules[k].outputNodeIds = IdsOfKind(modules[k].nodes, "OUTPUT")
            /\ modules[k].inputCount = Len(modules[k].inputNodeIds)
            /\ modules[k].outputCount = Len(modules[k].outputNodeIds)
            /\ modules[k].inputCount >= 1 /\ modules[k].outputCount >= 1)
    /\ [][/\ op'.name = "CREATE_MODULE" =>
                /\ SubSeq(modules', 1, Len(modules)) = modules
                /\ Len(modules') = Len(modules) + 1
                /\ modules'[Len(modules')].nodes = nodes
                /\ modules'[Len(modules')].connections = connections
          /\ op'.name \in CanvasActions => modules' = modules
         ]_vars

\* C28 witness: after a toggle the canvas INPUT holds true while the INPUT
\* stored under the same id in a definition still holds false, and an
\* instance of the definition is on the canvas
C28_Witness ==
    /\ op.name = "TOGGLE_INPUT"
    /\ \E k \in DOMAIN modules : \E p \in DOMAIN modules[k].nodes, q \in DOMAIN nodes :
          /\ modules[k].nodes[p].id = nodes[q].id
          /\ modules[k].nodes[p].inputValue = <<FALSE>>
          /\ nodes[q].inputValue = <<TRUE>>
    /\ \E q \in DOMAIN nodes : nodes[q].type = "MODULE"

====
